---- MODULE Spec2Model ----
(***************************************************************************)
(* konfam-backend: detection -> verification -> response -> publication.   *)
(*                                                                         *)
(* The data store (DetectedPost, Threat, Response rows), the verification  *)
(* queue and the workers that run verify-one jobs are the state.  Numbers  *)
(* with a fractional part are kept exact: a polarity is an integer number  *)
(* of tenths, a credibility an integer number of tenths, a virality score  *)
(* a reduced fraction [num, den].                                          *)
(***************************************************************************)
EXTENDS Integers, Sequences, FiniteSets, Bags, TLC

VARIABLES
    detectedPosts,   \* DetectedPost table: sequence of rows, id = index
    threats,         \* Threat table: sequence of rows, id = index
    responses,       \* Response table: sequence of rows, id = index
    scrapedItems,    \* ScrapedItem table (evidence store), read-only to the core
    queue,           \* verification-jobs queue: the bag of waiting jobs
    procs,           \* the verification workers and the operator's approve request
    lastDetect,      \* history: per (externalPostId, platform), what the latest call computed
    publishAttempts, \* history: ids of Responses postResponseToXClone tried to publish
    detections,      \* history: number of detectAndStorePost calls so far
    requests,        \* history: number of operator, dashboard and producer requests so far
    consumer         \* the XStreamConsumer object and the EventSources it created

vars == <<detectedPosts, threats, responses, scrapedItems, queue, procs,
          lastDetect, publishAttempts, detections, requests, consumer>>

\* null in a column of strings
Null == "null"

\* a nullable number or list: None, or Some(x)
None == <<>>
Some(x) == <<x>>

----------------------------------------------------------------------------
(* Bounds of the model *)

\* detectAndStorePost calls in one behaviour of the pipeline
MaxDetections == 2

\* detectAndStorePost calls in one behaviour of detection alone
MaxDetectCalls == 3

\* requests of the operator, the dashboard and other job producers in one
\* behaviour
MaxRequests == 1

----------------------------------------------------------------------------
(* Strings.  A text is a sequence of words; toLowerCase acts word by word. *)

Words == {"Outage", "outage", "fraud", "app", "down", "fees"}

Lower(w) == IF w = "Outage" THEN "outage" ELSE w

LowerAll(content) == {Lower(content[i]) : i \in 1..Len(content)}

\* lower.includes(kw.toLowerCase())
Includes(content, kw) == Lower(kw) \in LowerAll(content)

\* claim.split(/\s+/).filter(Boolean)[0] ?? ""
FirstKeyword(content) == IF Len(content) = 0 THEN "" ELSE content[1]

----------------------------------------------------------------------------
(* Arithmetic on exact fractions *)

RECURSIVE Gcd(_, _)
Gcd(a, b) == IF b = 0 THEN a ELSE Gcd(b, a % b)

Frac(n, d) == LET g == Gcd(n, d) IN [num |-> n \div g, den |-> d \div g]

Abs(x) == IF x < 0 THEN -x ELSE x
Min(a, b) == IF a <= b THEN a ELSE b
Max(a, b) == IF a >= b THEN a ELSE b

----------------------------------------------------------------------------
(* Monitor table (external configuration, read-only) *)

Monitors ==
    [m1 |-> [brandId |-> "b1", keywords |-> {"Outage", "fraud"},
             sentimentThreshold |-> -3, viralityThreshold |-> 50],
     m2 |-> [brandId |-> "b2", keywords |-> {"fees"},
             sentimentThreshold |-> -5, viralityThreshold |-> 80]]

\* prisma.monitor.findUnique finds a row
MonitorFound(monitorId) == monitorId \in DOMAIN Monitors

----------------------------------------------------------------------------
(* detectAndStorePost: scoring *)

\* what the sentiment oracle (groq.chat.completions.create) can answer:
\* a thrown error or timeout, an empty reply, text that is no JSON, or JSON
\* with a sentimentScore (in tenths, possibly outside [-1,1])
SentimentReplies ==
    {[kind |-> "throw", score |-> 0], [kind |-> "empty", score |-> 0],
     [kind |-> "garbage", score |-> 0]}
    \cup {[kind |-> "json", score |-> s] : s \in {-20, -8, -3, 0, 6}}

\* the sentiment package's word list (AFINN scores) and its comparative
\* score = sum of the word scores / number of tokens, in tenths
Afinn(w) == CASE w = "fraud" -> -4 [] w = "outage" -> -1 [] w = "down" -> -1
              [] OTHER -> 0

RECURSIVE SumScores(_)
SumScores(content) ==
    IF Len(content) = 0 THEN 0
    ELSE Afinn(Lower(Head(content))) + SumScores(Tail(content))

Comparative(content) ==
    IF Len(content) = 0 THEN 0 ELSE (SumScores(content) * 10) \div Len(content)

Clamp(lo, hi, x) == Max(lo, Min(hi, x))

\* JSON the oracle may also answer: it parses, but parsed.sentimentScore is
\* missing or no number
ScorelessReplies == {[kind |-> "noscore", score |-> 0]}

\* NaN, kept apart from every number of tenths:
\* Math.max(-1, Math.min(1, undefined)) is NaN, and nothing is thrown
NaN == 99

\* the sentiment score of a post: the oracle's score clamped to [-1,1]; on a
\* throw, an empty reply or unparseable text the local lexicon's comparative
\* score clamped to [-1,1]; NaN when the parsed reply has no numeric score
SentimentScore(content, reply) ==
    IF reply.kind = "json" THEN Clamp(-10, 10, reply.score)
    ELSE IF reply.kind = "noscore" THEN NaN
    ELSE Clamp(-10, 10, Comparative(content))

\* engagementRate * 100 * (1 + retweetCount * 0.5), capped at 100
ViralScore(likeCount, retweetCount, replyCount, viewCount) ==
    LET totalEngagement == likeCount + retweetCount + replyCount
        n == totalEngagement * 100 * (2 + retweetCount)
        d == 2 * viewCount
    IN  IF viewCount > 0
        THEN IF n >= 100 * d THEN Frac(100, 1) ELSE Frac(n, d)
        ELSE Frac(0, 1)

\* a keyword match that compares the words as they are written
MatchedKeywordsExact(monitor, content) ==
    {kw \in monitor.keywords : \E i \in 1..Len(content) : content[i] = kw}

MatchedKeywords(monitor, content) ==
    {kw \in monitor.keywords : Includes(content, kw)}

\* everything detectAndStorePost computes before it writes
Scored(data, reply, monitor) ==
    LET sentimentScore == SentimentScore(data.content, reply)
        viralScore == ViralScore(data.likeCount, data.retweetCount,
                                 data.replyCount, data.viewCount)
        matchedKeywords == MatchedKeywords(monitor, data.content)
        sentimentTrigger ==
            /\ sentimentScore # NaN
            /\ sentimentScore <= monitor.sentimentThreshold
        viralityTrigger ==
            viralScore.num >= monitor.viralityThreshold * viralScore.den
        keywordTrigger == matchedKeywords # {}
    IN  [sentimentScore |-> sentimentScore, viralScore |-> viralScore,
         matchedKeywords |-> matchedKeywords,
         sentimentTrigger |-> sentimentTrigger,
         viralityTrigger |-> viralityTrigger,
         keywordTrigger |-> keywordTrigger,
         triggered |-> sentimentTrigger \/ viralityTrigger \/ keywordTrigger]

ThreatTypeOf(sc) ==
    IF sc.sentimentTrigger /\ sc.keywordTrigger THEN "NEGATIVE_SENTIMENT"
    ELSE IF sc.viralityTrigger THEN "VIRAL_RISK"
    ELSE "CRISIS"

----------------------------------------------------------------------------
(* detectAndStorePost: the DetectedPost and Threat upserts *)

\* a lookup that forgets the platform half of the key
PostIdsByExternalId(posts, externalPostId, platform) ==
    {i \in 1..Len(posts) : posts[i].externalPostId = externalPostId}

\* ids of the rows with the unique key (externalPostId, platform)
PostIdsByKey(posts, externalPostId, platform) ==
    {i \in 1..Len(posts) : /\ posts[i].externalPostId = externalPostId
                           /\ posts[i].platform = platform}

\* prisma.detectedPost.upsert keyed on externalPostId_platform
UpsertDetectedPost(posts, data, sc) ==
    LET found == PostIdsByKey(posts, data.externalPostId, data.platform)
    IN  IF found # {}
        THEN LET i == CHOOSE j \in found : TRUE
             IN  [posts EXCEPT ![i] =
                    [@ EXCEPT !.content = data.content,
                              !.sentimentPolarity = sc.sentimentScore,
                              !.viralScore = sc.viralScore,
                              !.matchedKeywords = sc.matchedKeywords,
                              !.likeCount = data.likeCount,
                              !.retweetCount = data.retweetCount,
                              !.replyCount = data.replyCount,
                              !.viewCount = data.viewCount,
                              !.isFlagged = sc.triggered]]
        ELSE Append(posts,
               [id |-> Len(posts) + 1, monitorId |-> data.monitorId,
                brandId |-> data.brandId,
                externalPostId |-> data.externalPostId,
                platform |-> data.platform, content |-> data.content,
                likeCount |-> data.likeCount,
                retweetCount |-> data.retweetCount,
                replyCount |-> data.replyCount, viewCount |-> data.viewCount,
                viralScore |-> sc.viralScore,
                sentimentPolarity |-> sc.sentimentScore,
                matchedKeywords |-> sc.matchedKeywords,
                isFlagged |-> sc.triggered])

\* the id of the row the upsert returned
UpsertedPostId(posts, data) ==
    CHOOSE i \in PostIdsByKey(posts, data.externalPostId, data.platform) : TRUE

ThreatIdsByPost(ths, detectedPostId) ==
    {i \in 1..Len(ths) : ths[i].detectedPostId = detectedPostId}

\* prisma.threat.upsert keyed on detectedPostId
UpsertThreat(ths, detectedPostId, data, sc) ==
    LET found == ThreatIdsByPost(ths, detectedPostId)
    IN  IF found # {}
        THEN LET i == CHOOSE j \in found : TRUE
             IN  [ths EXCEPT ![i] =
                    [@ EXCEPT !.threatType = ThreatTypeOf(sc),
                              !.status = "NEW"]]
        ELSE Append(ths,
               [id |-> Len(ths) + 1, detectedPostId |-> detectedPostId,
                brandId |-> data.brandId, monitorId |-> data.monitorId,
                threatType |-> ThreatTypeOf(sc), status |-> "NEW",
                verificationStatus |-> Null,
                verificationConfidence |-> None,
                verificationSummary |-> Null,
                verificationEvidenceIds |-> None])

UpsertedThreatId(ths, detectedPostId) ==
    CHOOSE i \in ThreatIdsByPost(ths, detectedPostId) : TRUE

----------------------------------------------------------------------------
(* The evidence store and verifyThreat *)

\* ScrapedItem rows: brandId is source.brandId, words the lower-cased words
\* of title and content, credibility in tenths or null
EvidenceStore ==
    <<[id |-> 1, brandId |-> "b1", words |-> {"fraud", "bank"},
       credibility |-> Some(9), publishedAt |-> 3, url |-> "u1"],
      [id |-> 2, brandId |-> "b1", words |-> {"fraud", "outage"},
       credibility |-> Some(4), publishedAt |-> 5, url |-> "u2"],
      [id |-> 3, brandId |-> "b1", words |-> {"outage"},
       credibility |-> None, publishedAt |-> 1, url |-> "u3"],
      [id |-> 4, brandId |-> "b2", words |-> {"fees", "outage"},
       credibility |-> Some(7), publishedAt |-> 2, url |-> "u4"],
      [id |-> 5, brandId |-> "b1", words |-> {"outage", "app"},
       credibility |-> Some(6), publishedAt |-> 4, url |-> "u5"]>>

\* { contains: firstKeyword, mode: "insensitive" } on title or content
ContainsInsensitive(item, keyword) ==
    keyword = "" \/ Lower(keyword) \in item.words

\* desc ordering of a nullable column (PostgreSQL: nulls first)
DescKey(x) == IF x = None THEN 1000 ELSE x[1]

Take(seq, n) == SubSeq(seq, 1, Min(n, Len(seq)))

\* orderBy: [{ publishedAt: "desc" }, { credibility: "desc" }]
RecencyThenCredibility(a, b) ==
    \/ a.publishedAt > b.publishedAt
    \/ /\ a.publishedAt = b.publishedAt
       /\ \/ DescKey(a.credibility) > DescKey(b.credibility)
          \/ DescKey(a.credibility) = DescKey(b.credibility) /\ a.id < b.id

\* orderBy: [{ credibility: "desc" }, { publishedAt: "desc" }]
CredibilityThenRecency(a, b) ==
    \/ DescKey(a.credibility) > DescKey(b.credibility)
    \/ /\ DescKey(a.credibility) = DescKey(b.credibility)
       /\ \/ a.publishedAt > b.publishedAt
          \/ a.publishedAt = b.publishedAt /\ a.id < b.id

Before(orderBy, a, b) ==
    IF orderBy = "recency" THEN RecencyThenCredibility(a, b)
    ELSE CredibilityThenRecency(a, b)

\* the selected rows as a sequence in the order asked for
RECURSIVE Sorted(_, _, _)
Sorted(items, ids, orderBy) ==
    IF ids = {} THEN <<>>
    ELSE LET first == CHOOSE i \in ids :
                        \A j \in ids \ {i} : Before(orderBy, items[i], items[j])
         IN  <<items[first]>> \o Sorted(items, ids \ {first}, orderBy)

EvidenceWindow == 15

\* prisma.scrapedItem.findMany of verifyThreat
QueryEvidence(items, brandId, firstKeyword) ==
    Take(Sorted(items,
                {i \in 1..Len(items) :
                    /\ items[i].brandId = brandId
                    /\ ContainsInsensitive(items[i], firstKeyword)},
                "recency"),
         EvidenceWindow)

CredibilityThreshold == 7
DefaultCredibility == 5

\* a filter that trusts an item whose credibility is unset
IsCredibleNullTrusted(s) ==
    s.credibility = None \/ s.credibility[1] >= CredibilityThreshold

\* (s.credibility ?? 0.5) >= 0.7, in tenths
IsCredible(s) ==
    (IF s.credibility = None THEN DefaultCredibility ELSE s.credibility[1])
        >= CredibilityThreshold

CredibleOf(scraped) == SelectSeq(scraped, IsCredible)

Ids(scraped) == [i \in 1..Len(scraped) |-> scraped[i].id]

\* what the judgment oracle can answer: a thrown error or timeout, an empty
\* reply, text that is no JSON, the JSON text null, or a JSON object whose
\* verdict, confidence and reason may each be missing or malformed
JudgeVerdicts == {Null, "TRUE", "FALSE", "UNVERIFIED", "true", "MAYBE"}
JudgeConfidences == {None, Some(-5), Some(0), Some(50), Some(100), Some(150)}
JudgeReasons == {Null, "reason"}

JudgeFailures ==
    {[kind |-> k, verdict |-> Null, confidence |-> None, reason |-> Null] :
        k \in {"throw", "empty", "garbage", "jsonnull"}}

JudgeObjects ==
    {[kind |-> "json", verdict |-> v, confidence |-> c, reason |-> r] :
        v \in JudgeVerdicts, c \in JudgeConfidences, r \in JudgeReasons}

\* JSON.parse(raw) followed by the reads of parsed.verdict: throws unless raw
\* is the text of a JSON object
ParseThrows(reply) == reply.kind # "json"

\* Math.max(0, Math.min(100, Number(parsed.confidence) || 60))
JudgeConfidence(c) ==
    Clamp(0, 100, IF c = None \/ c[1] = 0 THEN 60 ELSE c[1])

\* a decision table without the branch for an empty evidence list
VerifyOutcomeNoEmptyBranch(scraped, reply) ==
    IF Len(CredibleOf(scraped)) = 0
    THEN [verificationStatus |-> "FALSE", verificationConfidence |-> 80,
          verificationSummary |-> "No trusted outlet confirms",
          evidenceIds |-> Ids(scraped), judged |-> FALSE]
    ELSE IF reply.kind = "throw" \/ ParseThrows(reply)
    THEN [verificationStatus |-> "UNVERIFIED", verificationConfidence |-> 60,
          verificationSummary |-> "Judge fallback",
          evidenceIds |-> Ids(scraped), judged |-> TRUE]
    ELSE [verificationStatus |->
            IF reply.verdict = Null THEN "UNVERIFIED" ELSE reply.verdict,
          verificationConfidence |-> JudgeConfidence(reply.confidence),
          verificationSummary |->
            IF reply.reason = Null THEN "LLM judge summary" ELSE reply.reason,
          evidenceIds |-> Ids(scraped), judged |-> TRUE]

\* a decision table whose catch branch keeps the initial values
VerifyOutcomeCatchKeepsDefault(scraped, reply) ==
    IF Len(scraped) = 0
    THEN [verificationStatus |-> "UNVERIFIED", verificationConfidence |-> 35,
          verificationSummary |-> "No relevant coverage",
          evidenceIds |-> Ids(scraped), judged |-> FALSE]
    ELSE IF Len(CredibleOf(scraped)) = 0
    THEN [verificationStatus |-> "FALSE", verificationConfidence |-> 80,
          verificationSummary |-> "No trusted outlet confirms",
          evidenceIds |-> Ids(scraped), judged |-> FALSE]
    ELSE IF reply.kind = "throw" \/ ParseThrows(reply)
    THEN [verificationStatus |-> "UNVERIFIED", verificationConfidence |-> 40,
          verificationSummary |-> "No strong evidence found.",
          evidenceIds |-> Ids(scraped), judged |-> TRUE]
    ELSE [verificationStatus |->
            IF reply.verdict = Null THEN "UNVERIFIED" ELSE reply.verdict,
          verificationConfidence |-> JudgeConfidence(reply.confidence),
          verificationSummary |->
            IF reply.reason = Null THEN "LLM judge summary" ELSE reply.reason,
          evidenceIds |-> Ids(scraped), judged |-> TRUE]

\* the decision table of verifyThreat
VerifyOutcome(scraped, reply) ==
    IF Len(scraped) = 0
    THEN [verificationStatus |-> "UNVERIFIED", verificationConfidence |-> 35,
          verificationSummary |-> "No relevant coverage",
          evidenceIds |-> Ids(scraped), judged |-> FALSE]
    ELSE IF Len(CredibleOf(scraped)) = 0
    THEN [verificationStatus |-> "FALSE", verificationConfidence |-> 80,
          verificationSummary |-> "No trusted outlet confirms",
          evidenceIds |-> Ids(scraped), judged |-> FALSE]
    ELSE IF reply.kind = "throw" \/ ParseThrows(reply)
    THEN [verificationStatus |-> "UNVERIFIED", verificationConfidence |-> 60,
          verificationSummary |-> "Judge fallback",
          evidenceIds |-> Ids(scraped), judged |-> TRUE]
    ELSE [verificationStatus |->
            IF reply.verdict = Null THEN "UNVERIFIED" ELSE reply.verdict,
          verificationConfidence |-> JudgeConfidence(reply.confidence),
          verificationSummary |->
            IF reply.reason = Null THEN "LLM judge summary" ELSE reply.reason,
          evidenceIds |-> Ids(scraped), judged |-> TRUE]

\* a verification that returns its verdict without storing it
PersistVerificationSkipped(ths, threatId, out) == ths

\* an update that writes the verdict and its confidence only
PersistVerificationPartial(ths, threatId, out) ==
    [ths EXCEPT ![threatId] =
        [@ EXCEPT !.verificationStatus = out.verificationStatus,
                  !.verificationConfidence =
                      Some(out.verificationConfidence)]]

\* prisma.threat.update of verifyThreat
PersistVerification(ths, threatId, out) ==
    [ths EXCEPT ![threatId] =
        [@ EXCEPT !.verificationStatus = out.verificationStatus,
                  !.verificationConfidence = Some(out.verificationConfidence),
                  !.verificationSummary = out.verificationSummary,
                  !.verificationEvidenceIds = Some(out.evidenceIds)]]

----------------------------------------------------------------------------
(* generateResponseForFalse *)

MaxCitations == 3
CharBudget == 580

\* prisma.scrapedItem.findMany of generateResponseForFalse
SelectCitations(items, evidenceIds) ==
    LET wanted == IF evidenceIds = None THEN {}
                  ELSE {evidenceIds[1][k] : k \in 1..Len(evidenceIds[1])}
    IN  Take(Sorted(items, {i \in 1..Len(items) : items[i].id \in wanted},
                    "credibility"),
             MaxCitations)

Urls(evidence) == [i \in 1..Len(evidence) |-> evidence[i].url]

\* what the oracle can answer to the correction prompt: a thrown error or
\* timeout, or a text of some length (0: nothing but white space)
SynthReplies ==
    {[kind |-> "throw", len |-> 0]}
    \cup {[kind |-> "text", len |-> n] : n \in {0, 120, 580, 581}}

BrandNameLen(brandId) == IF brandId = "b1" THEN 11 ELSE 4

\* `${brandName}: This claim is incorrect. Operations remain normal.`
TemplateLen(brandId) == BrandNameLen(brandId) + 52

\* rawContent after the fallback and the truncation
RawContent(reply, brandId) ==
    LET len == IF reply.len = 0 THEN TemplateLen(brandId) ELSE reply.len
    IN  [origin |-> IF reply.len = 0 THEN "template" ELSE "oracle",
         len |-> IF len > CharBudget THEN CharBudget + 1 ELSE len,
         marker |-> len > CharBudget]

\* length of a source URL
UrlLen(url) == 20

\* verifiedSourcesHTML: a list with one linked item per source, or one
\* paragraph saying that there is none
SourcesHtmlLen(sourcesUsed) ==
    IF Len(sourcesUsed) = 0 THEN 47
    ELSE 9 + Len(sourcesUsed) * (40 + 2 * UrlLen("u"))

\* the fixed text of the HTML template around rawContent and the sources
HtmlFrameLen == 316

\* htmlContent: what is stored as the Response's content
HtmlContent(raw, sourcesUsed) ==
    [origin |-> raw.origin, len |-> raw.len, marker |-> raw.marker,
     html |-> HtmlFrameLen + raw.len + SourcesHtmlLen(sourcesUsed)]

ResponseIdsByThreat(resps, threatId) ==
    {i \in 1..Len(resps) : resps[i].threatId = threatId}

\* an upsert whose update branch leaves the stored sources as they were
UpsertResponseKeepsSources(resps, threatId, platform, content, sourcesUsed, confidence) ==
    LET found == ResponseIdsByThreat(resps, threatId)
    IN  IF found # {}
        THEN LET i == CHOOSE j \in found : TRUE
             IN  [resps EXCEPT ![i] =
                    [@ EXCEPT !.content = content,
                              !.confidence = Frac(confidence, 1),
                              !.status = "PENDING",
                              !.autoGenerated = TRUE]]
        ELSE Append(resps,
               [id |-> Len(resps) + 1, threatId |-> threatId,
                platform |-> platform, content |-> content,
                sourcesUsed |-> sourcesUsed,
                confidence |-> Frac(confidence, 1),
                status |-> "PENDING", autoGenerated |-> TRUE,
                postedAt |-> Null])

\* a write that inserts a row without looking for the Threat's row
UpsertResponseAsCreate(resps, threatId, platform, content, sourcesUsed, confidence) ==
    Append(resps,
       [id |-> Len(resps) + 1, threatId |-> threatId,
        platform |-> platform, content |-> content,
        sourcesUsed |-> sourcesUsed, confidence |-> Frac(confidence, 1),
        status |-> "PENDING", autoGenerated |-> TRUE, postedAt |-> Null])

\* prisma.response.upsert keyed on threatId
UpsertResponse(resps, threatId, platform, content, sourcesUsed, confidence) ==
    LET found == ResponseIdsByThreat(resps, threatId)
    IN  IF found # {}
        THEN LET i == CHOOSE j \in found : TRUE
             IN  [resps EXCEPT ![i] =
                    [@ EXCEPT !.content = content,
                              !.sourcesUsed = sourcesUsed,
                              !.confidence = Frac(confidence, 1),
                              !.status = "PENDING",
                              !.autoGenerated = TRUE]]
        ELSE Append(resps,
               [id |-> Len(resps) + 1, threatId |-> threatId,
                platform |-> platform, content |-> content,
                sourcesUsed |-> sourcesUsed,
                confidence |-> Frac(confidence, 1),
                status |-> "PENDING", autoGenerated |-> TRUE,
                postedAt |-> Null])

UpsertedResponseId(resps, threatId) ==
    CHOOSE i \in ResponseIdsByThreat(resps, threatId) : TRUE

\* if (verificationStatus === "FALSE" || verificationStatus === "UNVERIFIED")
RespondWorthy(verificationStatus) ==
    verificationStatus = "FALSE" \/ verificationStatus = "UNVERIFIED"

----------------------------------------------------------------------------
(* Processes: the verification workers and the operator's approve request *)

Workers == {"w1"}
\* two of the worker's concurrent processors, for the interleaving of two jobs
RaceWorkers == {"w1", "w2"}
Operators == {"op"}
ProcIds == RaceWorkers \cup Operators

\* what verifyThreat returned to handleThreatVerifyRespond
NoResult ==
    [verificationStatus |-> Null, verificationConfidence |-> 0,
     evidenceIds |-> <<>>]

Returned(out) ==
    [verificationStatus |-> out.verificationStatus,
     verificationConfidence |-> out.verificationConfidence,
     evidenceIds |-> out.evidenceIds]

\* no reply: the judgment oracle was not called
NoReply ==
    [kind |-> "none", verdict |-> Null, confidence |-> None, reason |-> Null]

IdleProc ==
    [pc |-> "idle", threatId |-> 0, autopost |-> FALSE, responseId |-> 0,
     scraped |-> <<>>, returned |-> NoResult, judged |-> FALSE,
     raw |-> NoReply, emitted |-> <<>>, res |-> Null, attemptsMade |-> 0,
     citations |-> <<>>, confidence |-> 0, platform |-> Null,
     brandId |-> Null, touched |-> FALSE, contacted |-> FALSE,
     error |-> Null]

\* new XStreamConsumer(wss): es and reconnectTimer are null. sources are the
\* EventSource objects created so far with their readyState, timers the
\* number of timeouts waiting to expire; stopped (stop() has returned and
\* start() has not been called since) and sent (tweet events broadcast so
\* far) are history
NewConsumer ==
    [es |-> 0, reconnectTimer |-> FALSE, sources |-> <<>>, timers |-> 0,
     stopped |-> FALSE, sent |-> 0]

Init ==
    /\ detectedPosts = <<>>
    /\ threats = <<>>
    /\ responses = <<>>
    /\ scrapedItems = EvidenceStore
    /\ queue = EmptyBag
    /\ procs = [p \in ProcIds |-> IdleProc]
    /\ lastDetect = <<>>
    /\ publishAttempts = {}
    /\ detections = 0
    /\ requests = 0
    /\ consumer = NewConsumer

----------------------------------------------------------------------------
(* Detection *)

\* a job that asks for publication whatever its producer passed
VerifyOneJobAutopost(threatId, autopost) ==
    [name |-> "verify-one", threatId |-> threatId, autopost |-> TRUE,
     attemptsMade |-> 0]

VerifyOneJob(threatId, autopost) ==
    [name |-> "verify-one", threatId |-> threatId, autopost |-> autopost,
     attemptsMade |-> 0]

\* defaultJobOptions.attempts: a job whose processor throws is run again
\* until it has been attempted this many times
Attempts == 3

\* the worker runs up to `concurrency` jobs at once, so with fewer jobs
\* waiting than that every waiting job may be the next one to start
Concurrency == 10

\* verificationQueue.add, n times
RECURSIVE AddJobs(_, _, _)
AddJobs(q, job, n) ==
    IF n = 0 THEN q ELSE AddJobs(q (+) SetToBag({job}), job, n - 1)

Key(data) == <<data.externalPostId, data.platform>>

Remember(history, data, sc) ==
    [k \in DOMAIN history \cup {Key(data)} |->
        IF k = Key(data)
        THEN [likeCount |-> data.likeCount, retweetCount |-> data.retweetCount,
              replyCount |-> data.replyCount, viewCount |-> data.viewCount,
              sentimentPolarity |-> sc.sentimentScore,
              viralScore |-> sc.viralScore, isFlagged |-> sc.triggered]
        ELSE history[k]]

\* detectAndStorePost(data), with the sentiment oracle answering `reply`;
\* callerAdds is the number of verify-one jobs the caller adds for the
\* Threat that is returned
DetectAndStorePost(data, reply, callerAdds) ==
    /\ detections' = detections + 1
    /\ UNCHANGED <<requests, consumer>>
    /\ IF ~MonitorFound(data.monitorId)
       THEN UNCHANGED <<detectedPosts, threats, responses, scrapedItems,
                        queue, procs, lastDetect, publishAttempts>>
       ELSE
         LET sc == Scored(data, reply, Monitors[data.monitorId])
             posts2 == UpsertDetectedPost(detectedPosts, data, sc)
             detectedPostId == UpsertedPostId(posts2, data)
             threats2 == UpsertThreat(threats, detectedPostId, data, sc)
             threatId == UpsertedThreatId(threats2, detectedPostId)
             adds == IF sc.triggered THEN 1 + callerAdds ELSE 0
         IN  /\ detectedPosts' = posts2
             /\ threats' = IF sc.triggered THEN threats2 ELSE threats
             /\ queue' = AddJobs(queue, VerifyOneJob(threatId, FALSE), adds)
             /\ lastDetect' = Remember(lastDetect, data, sc)
             /\ UNCHANGED <<responses, scrapedItems, procs, publishAttempts>>

\* detectAndStorePost when the data store refuses the row: a polarity of NaN
\* is no value of the Float column, the upsert throws, the function's catch
\* block returns null and nothing has been written
DetectRejected(data, reply) ==
    /\ MonitorFound(data.monitorId)
    /\ SentimentScore(data.content, reply) = NaN
    /\ detections' = detections + 1
    /\ UNCHANGED <<detectedPosts, threats, responses, scrapedItems, queue,
                   procs, lastDetect, publishAttempts, requests, consumer>>

\* detectAndStorePost when verificationQueue.add rejects (the queue's store
\* is unreachable): the post and the Threat have been written, the add
\* throws, the function's catch block returns null and no job exists
DetectEnqueueFails(data, reply) ==
    /\ MonitorFound(data.monitorId)
    /\ detections' = detections + 1
    /\ UNCHANGED <<requests, consumer>>
    /\ LET sc == Scored(data, reply, Monitors[data.monitorId])
           posts2 == UpsertDetectedPost(detectedPosts, data, sc)
           detectedPostId == UpsertedPostId(posts2, data)
       IN  /\ sc.triggered
           /\ SentimentScore(data.content, reply) # NaN
           /\ detectedPosts' = posts2
           /\ threats' = UpsertThreat(threats, detectedPostId, data, sc)
           /\ lastDetect' = Remember(lastDetect, data, sc)
           /\ UNCHANGED <<responses, scrapedItems, queue, procs,
                          publishAttempts>>

\* the HTTP controller: every field comes from the request body
AnalyzeIncomingPost(data, reply) == DetectAndStorePost(data, reply, 0)

\* one pass of the detection worker's loop for one active monitor
DetectionWorkerPass(post, monitorId, reply) ==
    /\ monitorId \in DOMAIN Monitors
    /\ \E k \in Monitors[monitorId].keywords : Includes(post.content, k)
    /\ DetectAndStorePost(
          [post EXCEPT !.monitorId = monitorId,
                       !.brandId = Monitors[monitorId].brandId],
          reply, 1)

----------------------------------------------------------------------------
(* Producers of verify-one jobs *)

\* one more request from outside
Request ==
    /\ requests' = requests + 1
    /\ UNCHANGED <<detections, consumer>>

\* a step of a job or of a request under way
Internal == UNCHANGED <<detections, requests, consumer>>

\* a verify route that passes the job on with autopost set
ForceVerifyAutopost(threatId) ==
    /\ Request
    /\ queue' = AddJobs(queue, VerifyOneJob(threatId, TRUE), 1)
    /\ UNCHANGED <<detectedPosts, threats, responses, scrapedItems, procs,
                   lastDetect, publishAttempts>>

\* app.post("/api/threats/:id/verify")
ForceVerify(threatId) ==
    /\ Request
    /\ queue' = AddJobs(queue, VerifyOneJob(threatId, FALSE), 1)
    /\ UNCHANGED <<detectedPosts, threats, responses, scrapedItems, procs,
                   lastDetect, publishAttempts>>

\* any other producer of the queue's verify-one(threatId, autopost) jobs
AddAutopostJob(threatId) ==
    /\ Request
    /\ queue' = AddJobs(queue, VerifyOneJob(threatId, TRUE), 1)
    /\ UNCHANGED <<detectedPosts, threats, responses, scrapedItems, procs,
                   lastDetect, publishAttempts>>

----------------------------------------------------------------------------
(* The verify-one job: verifyThreat -> generateResponseForFalse ->         *)
(* postResponseToXClone, one step per database or network round trip       *)

\* one call of the WebSocket broadcaster: the event name and the fields of
\* its payload that identify the Threat, the Response and the outcome
Event(event, threatId, responseId, detail) ==
    [event |-> event, threatId |-> threatId, responseId |-> responseId,
     detail |-> detail]

\* a processor whose catch block broadcasts nothing
WorkerReportSilentOnFailure(p, fields) ==
    IF p \notin RaceWorkers THEN fields
    ELSE IF fields.pc = "done"
    THEN [fields EXCEPT !.emitted = Append(@,
            Event("verification_complete", fields.threatId, 0,
                  IF RespondWorthy(fields.returned.verificationStatus)
                  THEN "MISINFORMATION" ELSE "VERIFIED_TRUE"))]
    ELSE fields

\* what the worker's processor broadcasts once handleThreatVerifyRespond has
\* returned (result.verified) or thrown (the catch block)
WorkerReport(p, fields) ==
    IF p \notin RaceWorkers THEN fields
    ELSE IF fields.pc = "done"
    THEN [fields EXCEPT !.emitted = Append(@,
            Event("verification_complete", fields.threatId, 0,
                  IF RespondWorthy(fields.returned.verificationStatus)
                  THEN "MISINFORMATION" ELSE "VERIFIED_TRUE"))]
    ELSE IF fields.pc = "failed"
    THEN [fields EXCEPT !.emitted = Append(@,
            Event("verification_failed", fields.threatId, 0, fields.error))]
    ELSE fields

Goto(p, fields) == procs' = [procs EXCEPT ![p] = WorkerReport(p, fields)]

\* the worker starts a waiting job: handleThreatVerifyRespond calls
\* verifyThreat, which loads the Threat with its post and queries the evidence
TakeJob(w, job) ==
    /\ Internal
    /\ procs[w].pc = "idle"
    /\ BagIn(job, queue)
    /\ queue' = queue (-) SetToBag({job})
    /\ IF job.threatId \notin 1..Len(threats)
       THEN Goto(w, [IdleProc EXCEPT !.pc = "failed",
                                     !.threatId = job.threatId,
                                     !.autopost = job.autopost,
                    !.attemptsMade = job.attemptsMade,
                                     !.error = "Threat not found"])
       ELSE LET threat == threats[job.threatId]
                claim == detectedPosts[threat.detectedPostId].content
            IN  Goto(w, [IdleProc EXCEPT
                    !.pc = "verify_judge",
                    !.threatId = job.threatId,
                    !.autopost = job.autopost,
                    !.attemptsMade = job.attemptsMade,
                    !.scraped = QueryEvidence(scrapedItems, threat.brandId,
                                              FirstKeyword(claim))])
    /\ UNCHANGED <<detectedPosts, threats, responses, scrapedItems,
                   lastDetect, publishAttempts>>

\* verifyThreat: decide, persist, and handleThreatVerifyRespond's branch
VerifyPersist(w, reply) ==
    /\ Internal
    /\ procs[w].pc = "verify_judge"
    /\ LET out == VerifyOutcome(procs[w].scraped, reply)
       IN  /\ threats' = PersistVerification(threats, procs[w].threatId, out)
           /\ Goto(w, [procs[w] EXCEPT
                  !.pc = IF RespondWorthy(out.verificationStatus)
                         THEN "synth_load" ELSE "done",
                  !.returned = Returned(out),
                  !.judged = out.judged,
                  !.raw = IF out.judged THEN reply ELSE NoReply,
                  !.emitted =
                      IF RespondWorthy(out.verificationStatus) THEN @
                      ELSE Append(@, Event("verification_complete",
                                           procs[w].threatId, 0,
                                           "VERIFIED_TRUE"))])
    /\ UNCHANGED <<detectedPosts, responses, scrapedItems, queue,
                   lastDetect, publishAttempts>>

\* generateResponseForFalse: load the Threat and pick the citations
SynthLoad(w) ==
    /\ Internal
    /\ procs[w].pc = "synth_load"
    /\ LET threat == threats[procs[w].threatId]
           post == detectedPosts[threat.detectedPostId]
       IN  Goto(w, [procs[w] EXCEPT
              !.pc = "synth_write",
              !.citations = Urls(SelectCitations(scrapedItems,
                                    threat.verificationEvidenceIds)),
              !.confidence = IF threat.verificationConfidence = None
                             THEN 80 ELSE threat.verificationConfidence[1],
              !.platform = post.platform,
              !.brandId = threat.brandId])
    /\ UNCHANGED <<detectedPosts, threats, responses, scrapedItems, queue,
                   lastDetect, publishAttempts>>

\* generateResponseForFalse: the oracle answers; upsert the Response
SynthWrite(w, reply) ==
    /\ Internal
    /\ procs[w].pc = "synth_write"
    /\ IF reply.kind = "throw"
       THEN /\ Goto(w, [procs[w] EXCEPT !.pc = "failed",
                                        !.error = "oracle error"])
            /\ UNCHANGED responses
       ELSE LET resps2 == UpsertResponse(responses, procs[w].threatId,
                              procs[w].platform,
                              HtmlContent(RawContent(reply, procs[w].brandId),
                                          procs[w].citations),
                              procs[w].citations, procs[w].confidence)
            IN  /\ responses' = resps2
                /\ Goto(w, [procs[w] EXCEPT
                      !.pc = IF procs[w].autopost THEN "publish_load"
                             ELSE "done",
                      !.responseId =
                          UpsertedResponseId(resps2, procs[w].threatId),
                      !.citations = <<>>, !.confidence = 0,
                      !.platform = Null, !.brandId = Null,
                      !.touched = TRUE,
                      !.emitted = Append(@, Event("response_ready",
                          procs[w].threatId,
                          UpsertedResponseId(resps2, procs[w].threatId),
                          "preview"))])
    /\ UNCHANGED <<detectedPosts, threats, scrapedItems, queue,
                   lastDetect, publishAttempts>>

----------------------------------------------------------------------------
(* postResponseToXClone *)

\* a load that goes on to the request whenever the Response exists
PublishLoadAnyTarget(p) ==
    /\ Internal
    /\ procs[p].pc = "publish_load"
    /\ IF procs[p].responseId \notin 1..Len(responses)
       THEN Goto(p, [procs[p] EXCEPT !.pc = "failed",
                                     !.error = "Response not found"])
       ELSE Goto(p, [procs[p] EXCEPT !.pc = "publish_http"])
    /\ UNCHANGED <<detectedPosts, threats, responses, scrapedItems, queue,
                   lastDetect, publishAttempts>>

\* load the Response with its Threat's post; fail fast without a reply target
PublishLoad(p) ==
    /\ Internal
    /\ procs[p].pc = "publish_load"
    /\ IF procs[p].responseId \notin 1..Len(responses)
       THEN Goto(p, [procs[p] EXCEPT !.pc = "failed",
                                     !.error = "Response not found"])
       ELSE LET threat == threats[responses[procs[p].responseId].threatId]
                target == detectedPosts[threat.detectedPostId]
            IN  IF target.externalPostId = ""
                THEN Goto(p, [procs[p] EXCEPT
                        !.pc = "failed",
                        !.error = "Detected post not found for threat"])
                ELSE Goto(p, [procs[p] EXCEPT !.pc = "publish_http"])
    /\ UNCHANGED <<detectedPosts, threats, responses, scrapedItems, queue,
                   lastDetect, publishAttempts>>

HttpResults == {"ok", "error"}

\* err.message: `X-clone response: ${text}` for a non-success status, the
\* message of fetch's own error when the request itself fails
HttpError(result) ==
    IF result = "error" THEN "X-clone response" ELSE "fetch failed"

SetStatus(resps, responseId, status, postedAt) ==
    [resps EXCEPT ![responseId] =
        [@ EXCEPT !.status = status, !.postedAt = postedAt]]

\* a publish step whose catch block forgets the FAILED update
PublishHttpKeepsStatus(p, result) ==
    /\ Internal
    /\ procs[p].pc = "publish_http"
    /\ publishAttempts' = publishAttempts \cup {procs[p].responseId}
    /\ IF result = "ok"
       THEN /\ responses' = SetStatus(responses, procs[p].responseId,
                                      "POSTED", "set")
            /\ Goto(p, [procs[p] EXCEPT
                  !.pc = "done", !.contacted = TRUE, !.res = result,
                  !.emitted = Append(@, Event("response_posted",
                      responses[procs[p].responseId].threatId,
                      procs[p].responseId, "postedAt"))])
       ELSE /\ responses' = responses
            /\ Goto(p, [procs[p] EXCEPT
                  !.pc = "failed", !.contacted = TRUE, !.res = result,
                  !.error = HttpError(result),
                  !.emitted = Append(@, Event("response_failed",
                      responses[procs[p].responseId].threatId,
                      procs[p].responseId, HttpError(result)))])
    /\ UNCHANGED <<detectedPosts, threats, scrapedItems, queue, lastDetect>>

\* the platform answers the POST; the Response becomes POSTED or FAILED
PublishHttp(p, result) ==
    /\ Internal
    /\ procs[p].pc = "publish_http"
    /\ publishAttempts' = publishAttempts \cup {procs[p].responseId}
    /\ IF result = "ok"
       THEN /\ responses' = SetStatus(responses, procs[p].responseId,
                                      "POSTED", "set")
            /\ Goto(p, [procs[p] EXCEPT
                  !.pc = "done", !.contacted = TRUE, !.res = result,
                  !.emitted = Append(@, Event("response_posted",
                      responses[procs[p].responseId].threatId,
                      procs[p].responseId, "postedAt"))])
       ELSE /\ responses' = SetStatus(responses, procs[p].responseId, "FAILED",
                                responses[procs[p].responseId].postedAt)
            /\ Goto(p, [procs[p] EXCEPT
                  !.pc = "failed", !.contacted = TRUE, !.res = result,
                  !.error = HttpError(result),
                  !.emitted = Append(@, Event("response_failed",
                      responses[procs[p].responseId].threatId,
                      procs[p].responseId, HttpError(result)))])
    /\ UNCHANGED <<detectedPosts, threats, scrapedItems, queue, lastDetect>>

\* whether the worker's processor rejects: its try block returns
\* { ok: true, result } and its catch block returns { error }, so it never does
ProcessorThrows(fields) == FALSE

\* the queue after a processor has settled: a job whose processor threw goes
\* back while attempts remain; any other job is finished and removed
AfterAttempt(q, fields) ==
    IF ProcessorThrows(fields) /\ fields.attemptsMade + 1 < Attempts
    THEN q (+) SetToBag({[VerifyOneJob(fields.threatId, fields.autopost)
                            EXCEPT !.attemptsMade = fields.attemptsMade + 1]})
    ELSE q

\* the worker's processor returns, or the approve route answers
Finish(p) ==
    /\ Internal
    /\ procs[p].pc \in {"done", "failed"}
    /\ Goto(p, IdleProc)
    /\ queue' = IF p \in RaceWorkers THEN AfterAttempt(queue, procs[p])
                 ELSE queue
    /\ UNCHANGED <<detectedPosts, threats, responses, scrapedItems,
                   lastDetect, publishAttempts>>

\* app.post("/api/responses/:id/approve")
ApproveResponse(op, responseId) ==
    /\ Request
    /\ procs[op].pc = "idle"
    /\ Goto(op, [IdleProc EXCEPT !.pc = "publish_load",
                                 !.responseId = responseId])
    /\ UNCHANGED <<detectedPosts, threats, responses, scrapedItems, queue,
                   lastDetect, publishAttempts>>

\* what the approve route sends once postResponseToXClone has settled:
\* res.json({ ok: true, ... }) when it returned, status 500 with err.message
\* when it threw
ApproveAnswer(fields) ==
    IF fields.pc = "done"
    THEN [code |-> 200, ok |-> TRUE, error |-> Null]
    ELSE [code |-> 500, ok |-> FALSE, error |-> fields.error]

----------------------------------------------------------------------------
(* The dashboard's write routes *)

ManualContent ==
    [origin |-> "manual", len |-> 40, marker |-> FALSE, html |-> 40]

\* the nested response upsert of PATCH /threats/:id/address
AddressUpsert(resps, threatId) ==
    LET found == ResponseIdsByThreat(resps, threatId)
    IN  IF found # {}
        THEN SetStatus(resps, CHOOSE j \in found : TRUE, "POSTED", "set")
        ELSE Append(resps,
               [id |-> Len(resps) + 1, threatId |-> threatId,
                platform |-> "TWITTER", content |-> ManualContent,
                sourcesUsed |-> <<>>, confidence |-> Frac(9, 10),
                status |-> "POSTED", autoGenerated |-> FALSE,
                postedAt |-> "set"])

\* dashboardRouter.patch("/threats/:id/address"); an unknown id changes nothing
AddressThreat(threatId) ==
    /\ Request
    /\ IF threatId \in 1..Len(threats)
       THEN /\ threats' = [threats EXCEPT ![threatId].status = "RESPONDED"]
            /\ responses' = AddressUpsert(responses, threatId)
       ELSE UNCHANGED <<threats, responses>>
    /\ UNCHANGED <<detectedPosts, scrapedItems, queue, procs, lastDetect,
                   publishAttempts>>

\* prisma.response.create: rejected when the Threat does not exist or
\* already has a Response (threatId is the unique key of the upserts)
CanCreateResponse(resps, ths, threatId) ==
    /\ threatId \in 1..Len(ths)
    /\ ResponseIdsByThreat(resps, threatId) = {}

\* dashboardRouter.post("/responses/deploy")
DeployResponse(threatId) ==
    /\ Request
    /\ IF CanCreateResponse(responses, threats, threatId)
       THEN responses' = Append(responses,
               [id |-> Len(responses) + 1, threatId |-> threatId,
                platform |-> "TWITTER", content |-> ManualContent,
                sourcesUsed |-> <<>>, confidence |-> Frac(95, 100),
                status |-> "POSTED", autoGenerated |-> FALSE,
                postedAt |-> "set"])
       ELSE UNCHANGED responses
    /\ UNCHANGED <<detectedPosts, threats, scrapedItems, queue, procs,
                   lastDetect, publishAttempts>>

----------------------------------------------------------------------------
(* Inputs and the specification *)

Post(monitorId, brandId, externalPostId, platform, content, l, rt, rp, v) ==
    [monitorId |-> monitorId, brandId |-> brandId,
     externalPostId |-> externalPostId, platform |-> platform,
     content |-> content, likeCount |-> l, retweetCount |-> rt,
     replyCount |-> rp, viewCount |-> v]

SamplePosts ==
    {Post("m1", "b1", "x1", "X_CLONE", <<"Outage", "app">>, 1, 0, 0, 10),
     Post("m1", "b1", "x1", "X_CLONE", <<"fraud">>, 5, 2, 1, 10),
     Post("m1", "b1", "x1", "X_CLONE", <<"app">>, 1, 0, 0, 10),
     Post("m1", "b1", "x1", "TWITTER", <<"app">>, 0, 0, 0, 0),
     Post("m0", "b1", "x1", "X_CLONE", <<"app">>, 0, 0, 0, 0)}

SentimentSample ==
    {r \in SentimentReplies : r.kind = "throw"}

JudgeSample ==
    {r \in JudgeFailures : r.kind = "garbage"}
    \cup {r \in JudgeObjects :
            /\ r.reason = Null
            /\ r.verdict = "TRUE"
            /\ r.confidence = Some(50)}

SynthSample == {r \in SynthReplies : r.len \in {0, 120}}

ThreatIdInputs == 0..Len(threats)
ResponseIdInputs == 0..Len(responses)

Next ==
    \/ /\ detections < MaxDetections
       /\ \E data \in SamplePosts, reply \in SentimentSample :
             AnalyzeIncomingPost(data, reply)
    \/ /\ detections < MaxDetections
       /\ \E post \in SamplePosts, m \in DOMAIN Monitors,
             reply \in SentimentSample : DetectionWorkerPass(post, m, reply)
    \/ /\ requests < MaxRequests
       /\ \E t \in ThreatIdInputs : ForceVerify(t)
    \/ /\ requests < MaxRequests
       /\ \E t \in 1..Len(threats) : AddAutopostJob(t)
    \/ \E w \in Workers, job \in BagToSet(queue) : TakeJob(w, job)
    \/ \E w \in Workers, reply \in JudgeSample : VerifyPersist(w, reply)
    \/ \E w \in Workers : SynthLoad(w)
    \/ \E w \in Workers, reply \in SynthSample : SynthWrite(w, reply)
    \/ \E p \in ProcIds : PublishLoad(p)
    \/ \E p \in ProcIds, result \in HttpResults : PublishHttp(p, result)
    \/ \E p \in ProcIds : Finish(p)
    \/ /\ requests < MaxRequests
       /\ \E op \in Operators, r \in ResponseIdInputs : ApproveResponse(op, r)
    \/ /\ requests < MaxRequests
       /\ \E t \in ThreatIdInputs : AddressThreat(t)
    \/ /\ requests < MaxRequests
       /\ \E t \in ThreatIdInputs : DeployResponse(t)

Spec == Init /\ [][Next]_vars

----------------------------------------------------------------------------
(* Detection alone, over a wider range of posts *)

DetectPosts ==
    {Post(m, "b1", x[1], x[2], c, n[1], n[2], n[3], n[4]) :
        m \in {"m1", "m0"},
        x \in {<<"x1", "X_CLONE">>, <<"x1", "TWITTER">>, <<"x2", "X_CLONE">>},
        c \in {<<"Outage", "app">>, <<"app">>},
        n \in {<<0, 0, 0, 0>>, <<5, 2, 1, 10>>}}

DetectReplies ==
    {r \in SentimentReplies : r.kind = "throw" \/ r.score = -20}

NextDetect ==
    \/ /\ detections < MaxDetectCalls
       /\ \E data \in DetectPosts, reply \in DetectReplies :
             AnalyzeIncomingPost(data, reply)
    \/ /\ detections < MaxDetectCalls
       /\ \E post \in DetectPosts, m \in DOMAIN Monitors,
             reply \in DetectReplies : DetectionWorkerPass(post, m, reply)

SpecDetect == Init /\ [][NextDetect]_vars

----------------------------------------------------------------------------
(* C1 *)

RowsOf(key) ==
    {i \in 1..Len(detectedPosts) :
        <<detectedPosts[i].externalPostId, detectedPosts[i].platform>> = key}

\* C1: after any sequence of detectAndStorePost calls that found their
\* monitor, the DetectedPost table holds exactly one row for each
\* (externalPostId, platform) pair that was processed and no other row, and
\* that row's engagement counters, polarity, virality score and flagged bit
\* are the ones the latest call for the pair computed.
C1_OneRowLatestMetrics ==
    /\ \A i \in 1..Len(detectedPosts) :
          <<detectedPosts[i].externalPostId, detectedPosts[i].platform>>
              \in DOMAIN lastDetect
    /\ \A key \in DOMAIN lastDetect :
          /\ Cardinality(RowsOf(key)) = 1
          /\ \A i \in RowsOf(key) :
                /\ detectedPosts[i].likeCount = lastDetect[key].likeCount
                /\ detectedPosts[i].retweetCount = lastDetect[key].retweetCount
                /\ detectedPosts[i].replyCount = lastDetect[key].replyCount
                /\ detectedPosts[i].viewCount = lastDetect[key].viewCount
                /\ detectedPosts[i].sentimentPolarity
                      = lastDetect[key].sentimentPolarity
                /\ detectedPosts[i].viralScore = lastDetect[key].viralScore
                /\ detectedPosts[i].isFlagged = lastDetect[key].isFlagged

\* two pairs that share the external id are stored, and one of them was
\* processed again with other metrics and another outcome
C1_Witness ==
    /\ detections = 3
    /\ <<"x1", "X_CLONE">> \in DOMAIN lastDetect
    /\ <<"x1", "TWITTER">> \in DOMAIN lastDetect
    /\ Len(detectedPosts) = 2
    /\ \E i \in 1..Len(detectedPosts) :
          /\ detectedPosts[i].isFlagged
          /\ detectedPosts[i].viralScore = Frac(100, 1)


----------------------------------------------------------------------------
(* Claims about the tables under the whole program *)

(* Two jobs at once: the detection worker's two verify-one jobs for one    *)
(* Threat run on two processors, against a re-detection and the dashboard  *)

MaxRaceDetections == 2

RacePosts == {Post("m1", "b1", "x1", "X_CLONE", <<"Outage", "app">>, 1, 0, 0, 10)}

NextRace ==
    \/ /\ detections < MaxRaceDetections
       /\ \E post \in RacePosts, reply \in SentimentSample :
             DetectionWorkerPass(post, "m1", reply)
    \/ /\ detections < MaxRaceDetections
       /\ \E post \in RacePosts, reply \in SentimentSample :
             AnalyzeIncomingPost(post, reply)
    \/ \E w \in RaceWorkers, job \in BagToSet(queue) : TakeJob(w, job)
    \/ \E w \in RaceWorkers, reply \in JudgeSample : VerifyPersist(w, reply)
    \/ \E w \in RaceWorkers : SynthLoad(w)
    \/ \E w \in RaceWorkers, reply \in SynthSample : SynthWrite(w, reply)
    \/ \E p \in ProcIds : PublishLoad(p)
    \/ \E p \in ProcIds, result \in HttpResults : PublishHttp(p, result)
    \/ \E p \in ProcIds : Finish(p)
    \/ /\ requests < MaxRequests
       /\ \E t \in 1..Len(threats) : AddAutopostJob(t)
    \/ /\ requests < MaxRequests
       /\ \E op \in Operators, r \in ResponseIdInputs : ApproveResponse(op, r)
    \/ /\ requests < MaxRequests
       /\ \E t \in ThreatIdInputs : AddressThreat(t)
    \/ /\ requests < MaxRequests
       /\ \E t \in ThreatIdInputs : DeployResponse(t)

SpecRace == Init /\ [][NextRace]_vars

ThreatsOfPost(p) == {t \in 1..Len(threats) : threats[t].detectedPostId = p}
ResponsesOfThreat(t) ==
    {r \in 1..Len(responses) : responses[r].threatId = t}

\* C2: each DetectedPost has at most one Threat and each Threat has at most
\* one Response, whatever the interleaving of detections, verification jobs,
\* approvals and dashboard operations
C2_AtMostOneThreatAndResponse ==
    /\ \A p \in 1..Len(detectedPosts) : Cardinality(ThreatsOfPost(p)) <= 1
    /\ \A t \in 1..Len(threats) : Cardinality(ResponsesOfThreat(t)) <= 1

\* a post detected twice carries one Threat, and two jobs that ran for the
\* Threat at the same time have both written its one Response, which a
\* publish attempt or a dashboard operation has stamped as posted
C2_Witness ==
    /\ detections = 2
    /\ Len(detectedPosts) = 1
    /\ Cardinality(ThreatsOfPost(1)) = 1
    /\ requests = 1
    /\ \A w \in RaceWorkers :
          /\ procs[w].pc = "done"
          /\ procs[w].threatId = 1
          /\ procs[w].touched
    /\ \E r \in ResponsesOfThreat(1) : responses[r].postedAt = "set"

\* C3: the four verification fields of a Threat are all unset or all set
C3_VerificationFieldsTogether ==
    \A t \in 1..Len(threats) :
        \/ /\ threats[t].verificationStatus = Null
           /\ threats[t].verificationConfidence = None
           /\ threats[t].verificationSummary = Null
           /\ threats[t].verificationEvidenceIds = None
        \/ /\ threats[t].verificationStatus # Null
           /\ threats[t].verificationConfidence # None
           /\ threats[t].verificationSummary # Null
           /\ threats[t].verificationEvidenceIds # None

\* a Threat verified against the evidence of its post's first text, whose
\* post was then detected again with another text
C3_Witness ==
    \E t \in 1..Len(threats) :
        /\ threats[t].verificationStatus # Null
        /\ threats[t].verificationEvidenceIds =
              Some(Ids(QueryEvidence(scrapedItems, "b1", "Outage")))
        /\ detectedPosts[threats[t].detectedPostId].content = <<"fraud">>
        /\ threats[t].status = "NEW"

\* C4: a Response is created PENDING and is POSTED or FAILED only after an
\* attempt to publish it
C4_PostedOrFailedOnlyAfterPublish ==
    \A r \in 1..Len(responses) :
        responses[r].status \in {"POSTED", "FAILED"} => r \in publishAttempts

\* C9: a finished handleThreatVerifyRespond created or modified a Response
\* exactly when the verdict was FALSE or UNVERIFIED, and on TRUE the platform
\* was not contacted
C9_ResponseIffFalseOrUnverified ==
    \A w \in Workers :
        (/\ procs[w].pc \in {"done", "failed"}
         /\ procs[w].returned.verificationStatus # Null)
        => /\ procs[w].touched
                <=> procs[w].returned.verificationStatus
                        \in {"FALSE", "UNVERIFIED"}
           /\ procs[w].returned.verificationStatus = "TRUE"
                => ~procs[w].contacted

\* C10: generateResponseForFalse leaves a Response that is POSTED as it is
C10_PostedNeverOverwritten ==
    [][\A w \in Workers :
          (procs[w].pc = "synth_write" /\ procs'[w].pc # "synth_write")
          => \A r \in 1..Len(responses) :
                responses[r].status = "POSTED"
                => responses'[r] = responses[r]]_vars


----------------------------------------------------------------------------
(* Verification alone: every kind of claim text against every oracle reply *)

MaxVerifyCalls == 2

VerifyPosts ==
    {Post("m1", "b1", "x1", "X_CLONE", c, 0, 0, 0, 10) :
        c \in {<<"down">>, <<"Outage", "app">>, <<"fraud">>, <<>>}}
    \cup {Post("m2", "b2", "x1", "X_CLONE", <<"fees">>, 0, 0, 0, 10)}

VerifySentiment == {r \in SentimentReplies : r.score = -20}

NextVerify ==
    \/ /\ detections < MaxVerifyCalls
       /\ \E data \in VerifyPosts, reply \in VerifySentiment :
             AnalyzeIncomingPost(data, reply)
    \/ \E w \in Workers, job \in BagToSet(queue) : TakeJob(w, job)
    \/ \E w \in Workers, reply \in JudgeFailures \cup JudgeObjects :
          VerifyPersist(w, reply)
    \/ \E w \in Workers : SynthLoad(w)
    \/ \E w \in Workers, reply \in SynthSample : SynthWrite(w, reply)
    \/ \E w \in Workers : Finish(w)

SpecVerify == Init /\ [][NextVerify]_vars

\* verifyThreat has returned to the worker's handleThreatVerifyRespond
VerifyReturned(w) == procs[w].returned.verificationStatus # Null

\* the verdict, confidence and evidence ids both returned and stored
Settled(w, verificationStatus, verificationConfidence) ==
    /\ procs[w].returned.verificationStatus = verificationStatus
    /\ procs[w].returned.verificationConfidence = verificationConfidence
    /\ threats[procs[w].threatId].verificationStatus = verificationStatus
    /\ threats[procs[w].threatId].verificationConfidence
          = Some(verificationConfidence)
    /\ threats[procs[w].threatId].verificationEvidenceIds
          = Some(Ids(procs[w].scraped))
    /\ procs[w].returned.evidenceIds = Ids(procs[w].scraped)

\* C5: with no evidence at all the verdict is UNVERIFIED with confidence 35
\* and an empty list of evidence ids, and the judgment oracle is not called
C5_NoEvidenceUnverified35 ==
    \A w \in Workers :
        (VerifyReturned(w) /\ Len(procs[w].scraped) = 0)
        => /\ Settled(w, "UNVERIFIED", 35)
           /\ procs[w].returned.evidenceIds = <<>>
           /\ procs[w].raw = NoReply

C5_Witness ==
    \E w \in Workers :
        /\ VerifyReturned(w)
        /\ Len(procs[w].scraped) = 0
        /\ detectedPosts[threats[procs[w].threatId].detectedPostId].content
              = <<"down">>
        /\ threats[procs[w].threatId].verificationConfidence = Some(35)

\* no item of the evidence reaches the credibility threshold 0.7, an unset
\* credibility counting as 0.5
NoneCredible(scraped) ==
    \A i \in 1..Len(scraped) :
        \/ scraped[i].credibility = None
        \/ scraped[i].credibility # None
           /\ scraped[i].credibility[1] < CredibilityThreshold

\* C6: with evidence none of which is credible the verdict is FALSE with
\* confidence 80, and the judgment oracle is not called
C6_NoCredibleFalse80 ==
    \A w \in Workers :
        (/\ VerifyReturned(w)
         /\ Len(procs[w].scraped) > 0
         /\ NoneCredible(procs[w].scraped))
        => /\ Settled(w, "FALSE", 80)
           /\ procs[w].raw = NoReply

C6_Witness ==
    \E w \in Workers :
        /\ VerifyReturned(w)
        /\ NoneCredible(procs[w].scraped)
        /\ \E i \in 1..Len(procs[w].scraped) :
              procs[w].scraped[i].credibility = None
        /\ \E i \in 1..Len(procs[w].scraped) :
              procs[w].scraped[i].credibility = Some(6)
        /\ threats[procs[w].threatId].verificationStatus = "FALSE"

\* C7: when the judgment oracle throws, times out, answers nothing or answers
\* text that cannot be read as the expected JSON, the verdict is UNVERIFIED
\* with confidence 60 and verifyThreat returns normally
C7_JudgeFailureUnverified60 ==
    \A w \in Workers :
        procs[w].raw.kind \in {"throw", "empty", "garbage", "jsonnull"}
        => /\ VerifyReturned(w)
           /\ Settled(w, "UNVERIFIED", 60)
           /\ procs[w].error \in {Null, "oracle error"}

C7_Witness ==
    \E w \in Workers :
        /\ procs[w].raw.kind = "garbage"
        /\ procs[w].pc = "synth_load"
        /\ threats[procs[w].threatId].verificationStatus = "UNVERIFIED"
        /\ threats[procs[w].threatId].verificationConfidence = Some(60)
        /\ Len(CredibleOf(procs[w].scraped)) > 0

\* C8: whatever the oracle replies, the verdict stored and returned is one of
\* TRUE, FALSE, UNVERIFIED and the stored confidence lies in [0,100]
C8_VerdictAndConfidenceInRange ==
    /\ \A t \in 1..Len(threats) :
          /\ threats[t].verificationStatus
                \in {Null, "TRUE", "FALSE", "UNVERIFIED"}
          /\ \/ threats[t].verificationConfidence = None
             \/ threats[t].verificationConfidence[1] \in 0..100
    /\ \A w \in Workers :
          procs[w].returned.verificationStatus
              \in {Null, "TRUE", "FALSE", "UNVERIFIED"}


----------------------------------------------------------------------------
(* Synthesis and publication: one Threat, its jobs with every oracle reply, *)
(* and repeated publish attempts                                           *)

MaxPublishDetections == 1
MaxPublishRequests == 2

\* the second post has an empty external id (the controller passes the
\* request body's externalPostId on unchecked)
PublishPosts ==
    {Post("m1", "b1", "x1", "X_CLONE", <<"Outage", "app">>, 1, 0, 0, 10),
     Post("m1", "b1", "", "X_CLONE", <<"Outage", "app">>, 1, 0, 0, 10)}

\* fetch resolves with a success status, resolves with a non-success status,
\* or rejects
AllHttpResults == HttpResults \cup {"throw"}

NextPublish ==
    \/ /\ detections < MaxPublishDetections
       /\ \E data \in PublishPosts, reply \in SentimentSample :
             AnalyzeIncomingPost(data, reply)
    \/ /\ requests < MaxPublishRequests
       /\ \E t \in 1..Len(threats) : AddAutopostJob(t)
    \/ /\ requests < MaxPublishRequests
       /\ \E op \in Operators, r \in ResponseIdInputs : ApproveResponse(op, r)
    \/ \E w \in Workers, job \in BagToSet(queue) : TakeJob(w, job)
    \/ \E w \in Workers, reply \in JudgeSample : VerifyPersist(w, reply)
    \/ \E w \in Workers : SynthLoad(w)
    \/ \E w \in Workers, reply \in SynthReplies : SynthWrite(w, reply)
    \/ \E p \in ProcIds : PublishLoad(p)
    \/ \E p \in ProcIds, result \in AllHttpResults : PublishHttp(p, result)
    \/ \E p \in ProcIds : Finish(p)

SpecPublish == Init /\ [][NextPublish]_vars

\* C11: POSTED and FAILED are terminal: no step moves a Response from POSTED
\* to FAILED or from FAILED to POSTED
C11_PostedAndFailedTerminal ==
    [][\A r \in 1..Len(responses) :
          /\ ~(responses[r].status = "POSTED"
               /\ responses'[r].status = "FAILED")
          /\ ~(responses[r].status = "FAILED"
               /\ responses'[r].status = "POSTED")]_vars


\* C12: the correction text of a synthesized Response is at most 580
\* characters long, truncation marker included, and the stored content as a
\* whole is within the budget
C12_ContentWithinBudget ==
    \A r \in 1..Len(responses) :
        responses[r].autoGenerated
        => /\ responses[r].content.len <= CharBudget
           /\ responses[r].content.html <= CharBudget


\* C13: generateResponseForFalse always completes, whatever the oracle does,
\* and leaves a PENDING Response with non-empty content for the Threat
C13_SynthesisAlwaysProducesContent ==
    [][\A w \in Workers :
          (procs[w].pc = "synth_write" /\ procs'[w].pc # "synth_write")
          => /\ procs'[w].pc # "failed"
             /\ \E r \in 1..Len(responses') :
                   /\ responses'[r].threatId = procs[w].threatId
                   /\ responses'[r].status = "PENDING"
                   /\ responses'[r].content.len > 0]_vars


\* the Response a publish call names does not exist, or its post has no
\* external id to reply to
NoTarget(p) ==
    \/ procs[p].responseId \notin 1..Len(responses)
    \/ detectedPosts[threats[responses[procs[p].responseId].threatId]
                        .detectedPostId].externalPostId = ""

\* C14: postResponseToXClone for a missing Response or a post without an
\* external id throws before any request to the platform and leaves every
\* Response as it is
C14_NoTargetFailsBeforeRequest ==
    [][\A p \in ProcIds :
          /\ procs[p].pc = "publish_http" => ~NoTarget(p)
          /\ (/\ procs[p].pc = "publish_load"
              /\ procs'[p].pc # "publish_load"
              /\ NoTarget(p))
             => /\ procs'[p].pc = "failed"
                /\ procs'[p].error \in {"Response not found",
                                        "Detected post not found for threat"}
                /\ ~procs'[p].contacted
                /\ responses' = responses
                /\ publishAttempts' = publishAttempts]_vars

C14_Witness ==
    \E p \in ProcIds :
        /\ procs[p].pc = "failed"
        /\ procs[p].error = "Detected post not found for threat"
        /\ procs[p].responseId \in 1..Len(responses)
        /\ responses[procs[p].responseId].status = "PENDING"
        /\ publishAttempts = {}


\* the notifications of the given kind that p has broadcast in this call
Emitted(fields, event) ==
    {i \in 1..Len(fields.emitted) : fields.emitted[i].event = event}

\* C15: a publish attempt ends with the Response mirroring the platform's
\* answer: on success it is POSTED with postedAt set and response_posted is
\* emitted; otherwise it is FAILED, response_failed is emitted with a
\* non-empty error message and the error reaches the caller
C15_PublishMirrorsPlatform ==
    [][\A p \in ProcIds :
          (procs[p].pc = "publish_http" /\ procs'[p].pc # "publish_http")
          => LET r == procs[p].responseId
                 posted == Emitted(procs'[p], "response_posted")
                 failed == Emitted(procs'[p], "response_failed")
             IN  /\ procs'[p].res \in AllHttpResults
                 /\ r \in publishAttempts'
                 /\ IF procs'[p].res = "ok"
                    THEN /\ procs'[p].pc = "done"
                         /\ responses'[r].status = "POSTED"
                         /\ responses'[r].postedAt = "set"
                         /\ Cardinality(posted) = 1 /\ failed = {}
                         /\ \A i \in posted :
                               procs'[p].emitted[i].responseId = r
                    ELSE /\ procs'[p].pc = "failed"
                         /\ responses'[r].status = "FAILED"
                         /\ procs'[p].error \notin {Null, ""}
                         /\ Cardinality(failed) = 1 /\ posted = {}
                         /\ \A i \in failed :
                               /\ procs'[p].emitted[i].responseId = r
                               /\ procs'[p].emitted[i].detail
                                     = procs'[p].error]_vars

C15_Witness ==
    \E p \in ProcIds :
        /\ procs[p].res = "error"
        /\ procs[p].pc = "failed"
        /\ responses[procs[p].responseId].status = "FAILED"
        /\ Emitted(procs[p], "response_failed") # {}


\* the errors of a job's chain that a later attempt could get past
TransientErrors == {"oracle error", "X-clone response", "fetch failed"}

\* C16: a verify-one job whose chain failed with a transient error is put
\* back on the queue for another attempt while fewer than 3 were made
C16_FailedJobRetried ==
    [][\A w \in Workers :
          (/\ procs[w].pc = "failed"
           /\ procs'[w].pc = "idle"
           /\ procs[w].error \in TransientErrors
           /\ procs[w].attemptsMade + 1 < Attempts)
          => \E job \in BagToSet(queue') :
                /\ job.threatId = procs[w].threatId
                /\ job.attemptsMade = procs[w].attemptsMade + 1]_vars


\* the errors thrown inside a job's chain
ChainErrors ==
    {"Threat not found", "Response not found",
     "Detected post not found for threat"} \cup TransientErrors

\* C17: an error thrown inside a verify-one job's chain is caught by the
\* processor, which emits verification_failed with the job's threatId and
\* the error message, returns normally and is free for the next job
C17_ChainErrorsCaughtAndReported ==
    [][\A w \in Workers :
          /\ (procs[w].pc # "failed" /\ procs'[w].pc = "failed")
             => /\ procs'[w].error \in ChainErrors
                /\ ~ProcessorThrows(procs'[w])
                /\ Len(procs'[w].emitted) > 0
                /\ procs'[w].emitted[Len(procs'[w].emitted)]
                      = Event("verification_failed", procs'[w].threatId, 0,
                              procs'[w].error)
          /\ (procs[w].pc = "failed" /\ procs'[w].pc # "failed")
             => /\ procs'[w] = IdleProc
                /\ queue' = queue]_vars

\* a job for a Threat that does not exist has failed and been reported
C17_Witness ==
    \E w \in Workers :
        /\ procs[w].pc = "failed"
        /\ procs[w].error = "Threat not found"
        /\ procs[w].threatId = 0
        /\ Emitted(procs[w], "verification_failed") # {}


\* C18: within one verify-one job the Threat's verification fields are
\* stored before synthesis reads them, the Response is upserted before
\* publication reads it, and response_ready precedes any response_posted or
\* response_failed of the job
C18_StepsInOrder ==
    \A w \in RaceWorkers :
        /\ procs[w].pc \in {"synth_load", "synth_write"}
           => /\ VerifyReturned(w)
              /\ threats[procs[w].threatId].verificationStatus # Null
              /\ threats[procs[w].threatId].verificationEvidenceIds # None
              /\ ~procs[w].touched
        /\ procs[w].pc \in {"publish_load", "publish_http"}
           => /\ procs[w].touched
              /\ procs[w].responseId \in ResponsesOfThreat(procs[w].threatId)
              /\ Emitted(procs[w], "response_ready") # {}
        /\ \A i \in Emitted(procs[w], "response_posted")
                      \cup Emitted(procs[w], "response_failed") :
              \E j \in Emitted(procs[w], "response_ready") : j < i

\* an autopost job has run its three steps and published
C18_Witness ==
    \E w \in RaceWorkers :
        /\ procs[w].pc = "done"
        /\ procs[w].autopost
        /\ Emitted(procs[w], "response_ready") # {}
        /\ Emitted(procs[w], "response_posted") # {}
        /\ responses[procs[w].responseId].status = "POSTED"


----------------------------------------------------------------------------
(* Two jobs on one Threat whose verdicts and evidence differ *)

MaxPairDetections == 2

PairContents == {<<"fraud">>, <<"Outage", "app">>}

PairPosts ==
    {Post("m1", "b1", "x1", "X_CLONE", c, 1, 0, 0, 10) : c \in PairContents}

NextPair ==
    \/ /\ detections < MaxPairDetections
       /\ \E post \in PairPosts, reply \in SentimentSample :
             DetectionWorkerPass(post, "m1", reply)
    \/ \E w \in RaceWorkers, job \in BagToSet(queue) : TakeJob(w, job)
    \/ \E w \in RaceWorkers, reply \in JudgeSample : VerifyPersist(w, reply)
    \/ \E w \in RaceWorkers : SynthLoad(w)
    \/ \E w \in RaceWorkers, reply \in SynthSample : SynthWrite(w, reply)
    \/ \E w \in RaceWorkers : Finish(w)

SpecPair == Init /\ [][NextPair]_vars

\* the four fields are those of one run of verifyThreat on some text the
\* post had
OneVerification(threat) ==
    \E c \in PairContents, reply \in JudgeSample :
        LET out == VerifyOutcome(QueryEvidence(scrapedItems, threat.brandId,
                                               FirstKeyword(c)), reply)
        IN  /\ threat.verificationStatus = out.verificationStatus
            /\ threat.verificationConfidence
                  = Some(out.verificationConfidence)
            /\ threat.verificationSummary = out.verificationSummary
            /\ threat.verificationEvidenceIds = Some(out.evidenceIds)

\* content, sources and confidence are those of one run of
\* generateResponseForFalse on some verification of the Threat
OneSynthesis(response, brandId) ==
    \E c \in PairContents, judge \in JudgeSample, reply \in SynthSample :
        LET out == VerifyOutcome(QueryEvidence(scrapedItems, brandId,
                                               FirstKeyword(c)), judge)
            sourcesUsed == Urls(SelectCitations(scrapedItems,
                                                Some(out.evidenceIds)))
        IN  /\ reply.kind # "throw"
            /\ response.sourcesUsed = sourcesUsed
            /\ response.content
                  = HtmlContent(RawContent(reply, brandId), sourcesUsed)
            /\ response.confidence = Frac(out.verificationConfidence, 1)

\* C19: with two verify-one jobs running at once on the same Threat there is
\* one Threat row and at most one Response row, the Threat's four
\* verification fields come from one verification and the Response's
\* content, sources and confidence from one synthesis
C19_ConcurrentJobsConverge ==
    /\ Len(threats) <= 1
    /\ Len(responses) <= 1
    /\ \A t \in 1..Len(threats) :
          threats[t].verificationStatus # Null => OneVerification(threats[t])
    /\ \A r \in 1..Len(responses) :
          OneSynthesis(responses[r], threats[responses[r].threatId].brandId)

\* both processors have verified and synthesized for the same Threat, with
\* different verdicts
C19_Witness ==
    /\ Len(threats) = 1
    /\ Len(responses) = 1
    /\ \A w \in RaceWorkers :
          /\ procs[w].pc = "done"
          /\ procs[w].threatId = 1
          /\ procs[w].touched
    /\ procs["w1"].returned.verificationStatus = "UNVERIFIED"
    /\ procs["w2"].returned.verificationStatus = "FALSE"


\* the number of verify-one jobs a step adds to the queue
JobsAdded == BagCardinality(queue') - BagCardinality(queue)

\* C20: a detection that triggers enqueues exactly one verify-one job for
\* its Threat, and a detection that does not trigger enqueues none
C20_OneJobPerTriggeringDetection ==
    [][detections' # detections
       => /\ JobsAdded \in {0, 1}
          /\ threats' # threats => JobsAdded = 1
          /\ JobsAdded = 1
             => \E job \in BagToSet(queue') :
                   /\ job.threatId \in 1..Len(threats')
                   /\ CopiesIn(job, queue') = CopiesIn(job, queue) + 1]_vars

----------------------------------------------------------------------------
(* C21 *)

\* C21: the force-verify route adds exactly one verify-one job with autopost
\* false for the Threat id it was given and touches nothing else, no job
\* having run; the approve route answers only once its publish attempt has
\* ended, with success exactly when the attempt left the Response POSTED
\* and with an error exactly when the attempt threw
C21_RoutesEnqueueAndAwait ==
    [][/\ \A t \in ThreatIdInputs :
             ForceVerify(t)
             => /\ JobsAdded = 1
                /\ CopiesIn(VerifyOneJob(t, FALSE), queue')
                      = CopiesIn(VerifyOneJob(t, FALSE), queue) + 1
                /\ procs' = procs
                /\ threats' = threats /\ responses' = responses
       /\ \A op \in Operators :
             /\ (procs[op].pc = "idle" /\ procs'[op].pc # "idle")
                => procs'[op].pc = "publish_load"
             /\ procs[op].pc \notin {"idle", "done", "failed"}
                => procs'[op].pc # "idle"
             /\ (/\ procs[op].pc \notin {"done", "failed"}
                 /\ procs'[op].pc \in {"done", "failed"})
                => LET a == ApproveAnswer(procs'[op])
                       r == procs[op].responseId
                   IN  /\ a.ok <=> /\ procs'[op].res = "ok"
                                   /\ r \in 1..Len(responses')
                                   /\ responses'[r].status = "POSTED"
                       /\ ~a.ok <=> procs'[op].error # Null
                       /\ ~a.ok => a.error = procs'[op].error]_vars

C21_Witness ==
    /\ procs["op"].pc = "done"
    /\ ApproveAnswer(procs["op"]).ok
    /\ responses[procs["op"].responseId].status = "POSTED"
    /\ responses[procs["op"].responseId].autoGenerated

----------------------------------------------------------------------------
(* C22 *)

\* the errors that end a call for good: the row a call names is missing, or
\* the post has no external id to reply to
FatalErrors ==
    {"Threat not found", "Response not found",
     "Detected post not found for threat"}

FailureEvents == {"verification_failed", "response_failed"}

\* the call has broadcast a failure event that names its Threat or its
\* Response and carries the error's message
FailureNotified(fields) ==
    \E i \in 1..Len(fields.emitted) :
        /\ fields.emitted[i].event \in FailureEvents
        /\ fields.emitted[i].detail = fields.error
        /\ \/ fields.emitted[i].threatId = fields.threatId
           \/ fields.emitted[i].responseId = fields.responseId

\* C22: whenever a verify-one job or an approve request ends on a fatal
\* error, a failure notification with the entity's id and the error's
\* message has been emitted by then
C22_FatalErrorsNotified ==
    [][\A p \in ProcIds :
          (/\ procs[p].pc # "failed"
           /\ procs'[p].pc = "failed"
           /\ procs'[p].error \in FatalErrors)
          => FailureNotified(procs'[p])]_vars

----------------------------------------------------------------------------
(* C23: the verify-one job under the scheduling the code guarantees *)

\* The worker takes a waiting job and runs each of its own steps; the data
\* store answers; the oracle client gives up on a call that is not answered
\* (the reply "throw").  The request to the platform is node-fetch's fetch
\* with neither a timeout nor an abort signal: nothing in the code makes an
\* unanswered request end, so PublishHttp is not among the fair steps.
JobFairness ==
    \A w \in Workers :
        /\ WF_vars(\E job \in BagToSet(queue) : TakeJob(w, job))
        /\ WF_vars(\E reply \in JudgeSample : VerifyPersist(w, reply))
        /\ WF_vars(SynthLoad(w))
        /\ WF_vars(\E reply \in SynthReplies : SynthWrite(w, reply))
        /\ WF_vars(PublishLoad(w))
        /\ WF_vars(Finish(w))

SpecJobLive == Init /\ [][NextPublish]_vars /\ JobFairness

\* C23: every verify-one job that a worker has started eventually finishes
C23_JobEventuallyFinishes ==
    \A w \in Workers : (procs[w].pc # "idle") ~> (procs[w].pc = "idle")

----------------------------------------------------------------------------
(* C24: the publish call with a broadcaster that may fail *)

\* what a call of the bound broadcaster can do on response_posted and
\* response_failed: deliver the event; fail to send to a client, which
\* broadcast() catches per client; or throw to its caller, which
\* bindWsBroadcaster does nothing to prevent for the function it is given
BroadcastOutcomes == {"sent", "send fails", "throws"}

\* postResponseToXClone's request and what follows it.  Both broadcasts sit
\* inside the function's try and catch blocks: a throw from response_posted
\* enters the catch block, which sets the Response FAILED (leaving postedAt),
\* and a throw from response_failed leaves the function in place of the
\* platform's error
PublishHttpBroadcast(p, result, outcome) ==
    IF outcome # "throws"
    THEN PublishHttp(p, result)
    ELSE /\ Internal
         /\ procs[p].pc = "publish_http"
         /\ publishAttempts' = publishAttempts \cup {procs[p].responseId}
         /\ responses' = SetStatus(responses, procs[p].responseId, "FAILED",
                            IF result = "ok" THEN "set"
                            ELSE responses[procs[p].responseId].postedAt)
         /\ Goto(p, [procs[p] EXCEPT
               !.pc = "failed", !.contacted = TRUE, !.res = result,
               !.error = "broadcast error"])
         /\ UNCHANGED <<detectedPosts, threats, scrapedItems, queue,
                        lastDetect>>

MaxBroadcastDetections == 1
MaxBroadcastRequests == 2

\* detection, the verify-one job without autopost, and the operator's
\* approve requests
NextBroadcast ==
    \/ /\ detections < MaxBroadcastDetections
       /\ \E data \in PublishPosts, reply \in SentimentSample :
             AnalyzeIncomingPost(data, reply)
    \/ /\ requests < MaxBroadcastRequests
       /\ \E op \in Operators, r \in ResponseIdInputs : ApproveResponse(op, r)
    \/ \E w \in Workers, job \in BagToSet(queue) : TakeJob(w, job)
    \/ \E w \in Workers, reply \in JudgeSample : VerifyPersist(w, reply)
    \/ \E w \in Workers : SynthLoad(w)
    \/ \E w \in Workers, reply \in SynthReplies : SynthWrite(w, reply)
    \/ \E p \in ProcIds : PublishLoad(p)
    \/ \E p \in ProcIds, result \in AllHttpResults,
          outcome \in BroadcastOutcomes :
             PublishHttpBroadcast(p, result, outcome)
    \/ \E p \in ProcIds : Finish(p)

SpecBroadcast == Init /\ [][NextBroadcast]_vars

----------------------------------------------------------------------------
(* C25 *)

\* the statuses of a Threat that has been dealt with
SettledStatuses == {"RESPONDED", "RESOLVED"}

\* C25: a detectAndStorePost call leaves every Threat that is RESPONDED or
\* RESOLVED in that status, and every Threat it creates is NEW
C25_RedetectionNeverDemotes ==
    [][detections' # detections
       => /\ Len(threats') >= Len(threats)
          /\ \A t \in 1..Len(threats) :
                threats[t].status \in SettledStatuses
                => threats'[t].status = threats[t].status
          /\ \A t \in (Len(threats) + 1)..Len(threats') :
                threats'[t].status = "NEW"]_vars

----------------------------------------------------------------------------
(* C26 *)

\* the jobs a step adds to the queue
AddedJobs == {job \in BagToSet(queue') : CopiesIn(job, queue') > CopiesIn(job, queue)}

\* C26: a verify-one job without autopost never reaches the publish call,
\* adds no publish attempt and leaves the Response it synthesizes PENDING; a
\* job has contacted the platform only with autopost set and a FALSE or
\* UNVERIFIED verdict; and every job added by a detection or by the
\* force-verify route has autopost false
C26_NoAutopostNoPublish ==
    [][/\ \A w \in Workers :
             /\ procs'[w].contacted
                => /\ procs'[w].autopost
                   /\ RespondWorthy(procs'[w].returned.verificationStatus)
             /\ ~procs'[w].autopost
                => /\ procs'[w].pc \notin {"publish_load", "publish_http"}
                   /\ procs'[w] # procs[w]
                      => publishAttempts' = publishAttempts
             /\ (/\ procs[w].pc = "synth_write"
                 /\ ~procs[w].autopost
                 /\ procs'[w].touched)
                => /\ procs'[w].pc = "done"
                   /\ responses'[procs'[w].responseId].status = "PENDING"
       /\ (detections' # detections \/ \E t \in ThreatIdInputs : ForceVerify(t))
          => \A job \in AddedJobs : ~job.autopost]_vars

C26_Witness ==
    \E w \in Workers :
        /\ procs[w].pc = "done"
        /\ ~procs[w].autopost
        /\ procs[w].touched
        /\ ~procs[w].contacted
        /\ responses[procs[w].responseId].status = "PENDING"
        /\ publishAttempts = {}

----------------------------------------------------------------------------
(* Scoring: detectAndStorePost for monitor m1, over every kind of oracle     *)
(* reply and a range of contents and engagement counters                   *)

MaxScoreCalls == 2

ScoreContents == {<<"Outage", "app">>, <<"outage">>, <<"app">>}

\* likeCount, retweetCount, replyCount, viewCount
ScoreCounters ==
    {<<0, 0, 0, 0>>, <<1, 0, 0, 10>>, <<5, 2, 1, 10>>, <<3, 1, 0, 0>>,
     <<1, 1, 1, 8>>}

ScorePosts ==
    {Post("m1", "b1", "x1", "X_CLONE", c, n[1], n[2], n[3], n[4]) :
        c \in ScoreContents, n \in ScoreCounters}

ScoreReplies == SentimentReplies \cup ScorelessReplies

NextScore ==
    \/ /\ detections < MaxScoreCalls
       /\ \E data \in ScorePosts, reply \in ScoreReplies :
             AnalyzeIncomingPost(data, reply)
    \/ /\ detections < MaxScoreCalls
       /\ \E post \in ScorePosts, reply \in ScoreReplies :
             DetectionWorkerPass(post, "m1", reply)
    \/ /\ detections < MaxScoreCalls
       /\ \E data \in ScorePosts, reply \in ScoreReplies :
             DetectRejected(data, reply)

SpecScore == Init /\ [][NextScore]_vars

\* the three triggers, read off the stored row and the monitor's thresholds
PolarityTriggers(row, monitor) ==
    row.sentimentPolarity # NaN
    /\ row.sentimentPolarity <= monitor.sentimentThreshold

ViralityTriggers(row, monitor) ==
    row.viralScore.num >= monitor.viralityThreshold * row.viralScore.den

KeywordTriggers(row, monitor) ==
    \E kw \in monitor.keywords : Includes(row.content, kw)

\* C27: after every detectAndStorePost call a stored post is flagged, and a
\* NEW Threat exists for it, exactly when its polarity is at most the
\* monitor's sentiment threshold, or its virality at least the virality
\* threshold, or a keyword of the monitor occurs in its content whatever
\* the case; a call that stores the post unflagged creates and changes no
\* Threat and enqueues nothing
C27_FlaggedIffTriggered ==
    [][detections' # detections
       => \A i \in 1..Len(detectedPosts') :
             LET row == detectedPosts'[i]
                 monitor == Monitors[row.monitorId]
                 trigger == \/ PolarityTriggers(row, monitor)
                            \/ ViralityTriggers(row, monitor)
                            \/ KeywordTriggers(row, monitor)
             IN  /\ row.isFlagged <=> trigger
                 /\ trigger
                    => \E t \in 1..Len(threats') :
                          /\ threats'[t].detectedPostId = row.id
                          /\ threats'[t].status = "NEW"
                 /\ ~trigger => threats' = threats /\ queue' = queue]_vars

C27_Witness ==
    \E i \in 1..Len(detectedPosts) :
        /\ detectedPosts[i].content = <<"outage">>
        /\ detectedPosts[i].sentimentPolarity = 0
        /\ detectedPosts[i].viralScore = Frac(10, 1)
        /\ detectedPosts[i].isFlagged
        /\ \E t \in 1..Len(threats) : threats[t].detectedPostId = i

----------------------------------------------------------------------------
(* C28 *)

\* C28: the type of the Threat a detectAndStorePost call upserts follows the
\* priority rule over the three triggers: NEGATIVE_SENTIMENT when sentiment
\* and keyword both triggered, VIRAL_RISK when virality is the only trigger,
\* CRISIS in every other case
C28_ThreatTypeByPriority ==
    [][(detections' # detections /\ threats' # threats)
       => \A t \in 1..Len(threats') :
             LET row == detectedPosts'[threats'[t].detectedPostId]
                 monitor == Monitors[row.monitorId]
                 s == PolarityTriggers(row, monitor)
                 v == ViralityTriggers(row, monitor)
                 k == KeywordTriggers(row, monitor)
             IN  threats'[t].threatType =
                    IF s /\ k THEN "NEGATIVE_SENTIMENT"
                    ELSE IF v /\ ~s /\ ~k THEN "VIRAL_RISK"
                    ELSE "CRISIS"]_vars

----------------------------------------------------------------------------
(* C29 *)

\* min(100, engagementRate * 100 * (1 + retweetCount * 0.5)) with
\* engagementRate = (likes + retweets + replies) / max(views, 1), as an exact
\* fraction
ViralityByFormula(likeCount, retweetCount, replyCount, viewCount) ==
    LET n == (likeCount + retweetCount + replyCount) * 100 * (2 + retweetCount)
        d == 2 * Max(viewCount, 1)
    IN  IF n >= 100 * d THEN Frac(100, 1) ELSE Frac(n, d)

\* C29: the virality score a detectAndStorePost call stores equals
\* min(100, engagementRate * 100 * (1 + retweetCount * 0.5)) with
\* engagementRate = (likes + retweets + replies) / max(views, 1)
C29_ViralityFormula ==
    \A i \in 1..Len(detectedPosts) :
        detectedPosts[i].viralScore =
            ViralityByFormula(detectedPosts[i].likeCount,
                              detectedPosts[i].retweetCount,
                              detectedPosts[i].replyCount,
                              detectedPosts[i].viewCount)

----------------------------------------------------------------------------
(* C30 *)

\* C30: whatever the sentiment oracle answers, a detectAndStorePost call for
\* an existing monitor leaves the post stored with the content it was given,
\* and every stored polarity is a number in [-1,1]
C30_OracleFailureStillStores ==
    [][detections' # detections
       => /\ \E data \in ScorePosts :
                \E i \in 1..Len(detectedPosts') :
                   /\ Key(detectedPosts'[i]) = Key(data)
                   /\ detectedPosts'[i].content = data.content
          /\ \A i \in 1..Len(detectedPosts') :
                /\ detectedPosts'[i].sentimentPolarity # NaN
                /\ detectedPosts'[i].sentimentPolarity \in -10..10]_vars

----------------------------------------------------------------------------
(* C31: citations, over an evidence store with more than three items for   *)
(* one claim                                                               *)

\* the evidence store with one more trusted item for brand b1
CitationStore ==
    Append(EvidenceStore,
           [id |-> 6, brandId |-> "b1", words |-> {"bank", "statement"},
            credibility |-> Some(8), publishedAt |-> 6, url |-> "u6"])

InitCitations ==
    /\ detectedPosts = <<>>
    /\ threats = <<>>
    /\ responses = <<>>
    /\ scrapedItems = CitationStore
    /\ queue = EmptyBag
    /\ procs = [p \in ProcIds |-> IdleProc]
    /\ lastDetect = <<>>
    /\ publishAttempts = {}
    /\ detections = 0
    /\ requests = 0
    /\ consumer = NewConsumer

SpecCitations == InitCitations /\ [][NextVerify]_vars

\* the credibility of an item as the pipeline reads it: s.credibility ?? 0.5
CredibilityOf(s) ==
    IF s.credibility = None THEN DefaultCredibility ELSE s.credibility[1]

\* C31: the citations generateResponseForFalse selects are at most 3 URLs of
\* items listed in the Threat's verificationEvidenceIds, at least one when
\* the list is not empty, and no listed item that is left out has a higher
\* credibility than one that is included; the Response is then written
\* PENDING with these sources
C31_CitationsTopCredible ==
    [][\A w \in Workers :
          /\ (procs[w].pc = "synth_load" /\ procs'[w].pc = "synth_write")
             => LET ids == threats[procs[w].threatId].verificationEvidenceIds
                    listed == IF ids = None THEN {}
                              ELSE {i \in 1..Len(scrapedItems) :
                                      \E k \in 1..Len(ids[1]) :
                                         scrapedItems[i].id = ids[1][k]}
                    cited == {procs'[w].citations[k] :
                                 k \in 1..Len(procs'[w].citations)}
                    included == {i \in listed : scrapedItems[i].url \in cited}
                IN  /\ Len(procs'[w].citations) <= MaxCitations
                    /\ \A u \in cited :
                          \E i \in listed : scrapedItems[i].url = u
                    /\ listed # {} => Len(procs'[w].citations) >= 1
                    /\ \A out \in listed \ included, in \in included :
                          CredibilityOf(scrapedItems[out])
                             <= CredibilityOf(scrapedItems[in])
          /\ (/\ procs[w].pc = "synth_write"
              /\ procs'[w].touched)
             => /\ responses'[procs'[w].responseId].status = "PENDING"
                /\ responses'[procs'[w].responseId].sourcesUsed
                      = procs[w].citations]_vars

----------------------------------------------------------------------------
(* C32 *)

\* C32: when the evidence query of a verify-one job matches nothing, the
\* verdict returned is UNVERIFIED with confidence 35 and the job creates or
\* changes no Response
C32_NoEvidenceNoResponse ==
    \A w \in Workers :
        (VerifyReturned(w) /\ Len(procs[w].scraped) = 0)
        => /\ procs[w].returned.verificationStatus = "UNVERIFIED"
           /\ procs[w].returned.verificationConfidence = 35
           /\ ~procs[w].touched

----------------------------------------------------------------------------
(* C33: detection and verification with workers that keep processing *)

MaxLiveDetections == 2

LivePosts ==
    {Post("m1", "b1", "x1", "X_CLONE", <<"Outage", "app">>, 1, 0, 0, 10),
     Post("m1", "b1", "x2", "X_CLONE", <<"fraud">>, 1, 0, 0, 10)}

NextThreatLive ==
    \/ /\ detections < MaxLiveDetections
       /\ \E data \in LivePosts, reply \in SentimentSample :
             AnalyzeIncomingPost(data, reply)
    \/ /\ detections < MaxLiveDetections
       /\ \E data \in LivePosts, reply \in SentimentSample :
             DetectEnqueueFails(data, reply)
    \/ \E w \in Workers, job \in BagToSet(queue) : TakeJob(w, job)
    \/ \E w \in Workers, reply \in JudgeSample : VerifyPersist(w, reply)
    \/ \E w \in Workers : SynthLoad(w)
    \/ \E w \in Workers, reply \in SynthSample : SynthWrite(w, reply)
    \/ \E w \in Workers : Finish(w)

\* the workers keep processing: a waiting job is taken, and every step of a
\* job under way is taken
WorkersKeepProcessing ==
    \A w \in Workers :
        /\ WF_vars(\E job \in BagToSet(queue) : TakeJob(w, job))
        /\ WF_vars(\E reply \in JudgeSample : VerifyPersist(w, reply))
        /\ WF_vars(SynthLoad(w))
        /\ WF_vars(\E reply \in SynthSample : SynthWrite(w, reply))
        /\ WF_vars(Finish(w))

SpecThreatLive ==
    Init /\ [][NextThreatLive]_vars /\ WorkersKeepProcessing

\* C33: every Threat that detection has created eventually has a
\* verificationStatus
C33_ThreatEventuallyVerified ==
    \A t \in 1..MaxLiveDetections :
        (Len(threats) >= t)
        ~> (Len(threats) >= t /\ threats[t].verificationStatus # Null)


----------------------------------------------------------------------------
(* C34 *)

\* C34: an auto-generated Response exists for a Threat only while the
\* Threat's stored verificationStatus is FALSE or UNVERIFIED; a Threat whose
\* verdict is TRUE has no PENDING or POSTED auto-generated correction
C34_ResponseOnlyForFalseOrUnverified ==
    \A r \in 1..Len(responses) :
        responses[r].autoGenerated
        => RespondWorthy(threats[responses[r].threatId].verificationStatus)


----------------------------------------------------------------------------
(* C35 *)

\* C35: the platform accepts a Response at most once: no publish attempt is
\* answered with success for a Response that an earlier attempt already got
\* accepted (its postedAt, written on acceptance alone, is already set)
C35_AcceptedAtMostOnce ==
    [][\A p \in ProcIds :
          (/\ procs[p].pc = "publish_http"
           /\ procs'[p].pc = "done"
           /\ procs'[p].res = "ok")
          => responses[procs[p].responseId].postedAt = Null]_vars


----------------------------------------------------------------------------
(* Detection of one post under two monitors of different brands            *)

MaxBrandCalls == 2

BrandContents == {<<"app">>, <<"fraud", "fees">>, <<"Outage", "app">>}

\* the same post as each monitor's caller hands it over: monitorId with the
\* brandId of that monitor
BrandPosts ==
    {Post(m, Monitors[m].brandId, "x1", "X_CLONE", c, n[1], n[2], n[3], n[4]) :
        m \in DOMAIN Monitors, c \in BrandContents,
        n \in {<<0, 0, 0, 0>>, <<5, 2, 1, 10>>}}

BrandReplies ==
    {r \in SentimentReplies : r.kind = "throw" \/ r.score \in {-20, 0}}

NextBrands ==
    \/ /\ detections < MaxBrandCalls
       /\ \E data \in BrandPosts, reply \in BrandReplies :
             AnalyzeIncomingPost(data, reply)
    \/ /\ detections < MaxBrandCalls
       /\ \E post \in BrandPosts, m \in DOMAIN Monitors,
             reply \in BrandReplies : DetectionWorkerPass(post, m, reply)

SpecBrands == Init /\ [][NextBrands]_vars

\* C36: a Threat's brandId equals the brandId of its DetectedPost
C36_ThreatBrandIsPostBrand ==
    \A t \in 1..Len(threats) :
        threats[t].brandId = detectedPosts[threats[t].detectedPostId].brandId


----------------------------------------------------------------------------
(* C37 *)

\* C37: a verify-one execution that finishes without error has broadcast
\* verification_complete exactly once for its Threat, whatever the verdict,
\* and an execution that failed has broadcast none
C37_OneCompletePerExecution ==
    \A w \in Workers :
        /\ procs[w].pc = "done"
           => /\ Cardinality(Emitted(procs[w], "verification_complete")) = 1
              /\ \A i \in Emitted(procs[w], "verification_complete") :
                    procs[w].emitted[i].threatId = procs[w].threatId
        /\ procs[w].pc = "failed"
           => Emitted(procs[w], "verification_complete") = {}


----------------------------------------------------------------------------
(* XStreamConsumer: the live-stream connection and its reconnect timer     *)

MaxSources == 3
MaxTweets == 2

CoreUnchanged ==
    UNCHANGED <<detectedPosts, threats, responses, scrapedItems, queue, procs,
                lastDetect, publishAttempts, detections, requests>>

\* the body of start(): this.es = new EventSource(X_STREAM_URL), which starts
\* connecting at once, with the three handlers attached
Started(c) ==
    [c EXCEPT !.sources = Append(@, "connecting"),
              !.es = Len(c.sources) + 1]

\* start() called from outside
Start ==
    /\ Len(consumer.sources) < MaxSources
    /\ consumer' = [Started(consumer) EXCEPT !.stopped = FALSE]
    /\ CoreUnchanged

\* the connection of EventSource i is established; onopen only logs
SourceOpens(i) ==
    /\ consumer.sources[i] = "connecting"
    /\ consumer' = [consumer EXCEPT !.sources[i] = "open"]
    /\ CoreUnchanged

\* reconnect(): nothing while a timer is pending, else setTimeout(..., 5000)
Reconnect(c) ==
    IF c.reconnectTimer THEN c
    ELSE [c EXCEPT !.reconnectTimer = TRUE, !.timers = @ + 1]

\* EventSource i reports an error: it goes on retrying by itself
\* ("connecting") or has given up ("closed"); its onerror handler calls
\* reconnect()
SourceError(i, readyState) ==
    /\ consumer.sources[i] # "closed"
    /\ consumer' = Reconnect([consumer EXCEPT !.sources[i] = readyState])
    /\ CoreUnchanged

\* the timeout set by reconnect() expires: reconnectTimer = null; start()
TimerExpires ==
    /\ consumer.timers > 0
    /\ Len(consumer.sources) < MaxSources
    /\ consumer' = Started([consumer EXCEPT !.reconnectTimer = FALSE,
                                            !.timers = @ - 1])
    /\ CoreUnchanged

\* EventSource i delivers an event: onmessage parses event.data and sends the
\* tweet to the WebSocket clients; data that does not parse is only logged
SourceMessage(i, parses) ==
    /\ consumer.sources[i] = "open"
    /\ consumer.sent < MaxTweets
    /\ consumer' = [consumer EXCEPT !.sent = IF parses THEN @ + 1 ELSE @]
    /\ CoreUnchanged

\* stop(): close and forget the current EventSource, if there is one
Stop ==
    /\ consumer' =
          IF consumer.es # 0
          THEN [consumer EXCEPT !.sources[consumer.es] = "closed",
                                !.es = 0, !.stopped = TRUE]
          ELSE [consumer EXCEPT !.stopped = TRUE]
    /\ CoreUnchanged

NextStream ==
    \/ Start
    \/ \E i \in 1..Len(consumer.sources) : SourceOpens(i)
    \/ \E i \in 1..Len(consumer.sources),
          readyState \in {"connecting", "closed"} : SourceError(i, readyState)
    \/ TimerExpires
    \/ \E i \in 1..Len(consumer.sources), parses \in BOOLEAN :
          SourceMessage(i, parses)
    \/ Stop

SpecStream == Init /\ [][NextStream]_vars

\* the EventSources that hold or seek a connection
OpenSources(c) == {i \in 1..Len(c.sources) : c.sources[i] # "closed"}

\* C38: the consumer has at most one EventSource that is not closed and at
\* most one reconnect timer waiting to expire
C38_OneConnectionOneTimer ==
    /\ Cardinality(OpenSources(consumer)) <= 1
    /\ consumer.timers <= 1


----------------------------------------------------------------------------
(* C39 *)

\* C39: once stop() has returned, and until start() is called again, the
\* consumer creates no EventSource and broadcasts no tweet event
C39_StaysStopped ==
    [][(consumer.stopped /\ consumer'.stopped)
       => /\ Len(consumer'.sources) = Len(consumer.sources)
          /\ consumer'.sent = consumer.sent]_vars

====
